---- MODULE Spec2Model ----
(***************************************************************************)
(* Model of the drift analyzer of drift-vscode                              *)
(* (src/src/analyzers/driftAnalyzer.ts and the string helpers it uses).     *)
(*                                                                          *)
(* Strings are sequences of one-character strings, so that toLowerCase,     *)
(* normalizeWhitespace, includes and levenshteinDistance are computed as    *)
(* the code computes them.  Scores are IEEE-754 doubles: a non-negative     *)
(* double below 8 is the exact integer N = value * 2^57, kept in two limbs  *)
(* hi = N \div 2^29 and lo = N % 2^29; additions round to 53 bits, ties to  *)
(* even, as JavaScript's number addition does.                              *)
(***************************************************************************)
EXTENDS Integers, Sequences, FiniteSets, TLC

VARIABLES pc, parsedDoc, codeSignature, codeContent, driftReasons, driftScore,
          language, documentLines, docCodePairs,
          parsers, extensionMap, scanResults, parsedPairs, analyzedPairs, returned, calls,
          state, isDirty, stateFilePath, stateFile,
          openDocuments, activeDecorations, timeout, handler

vars == <<pc, parsedDoc, codeSignature, codeContent, driftReasons, driftScore,
          language, documentLines, docCodePairs,
          parsers, extensionMap, scanResults, parsedPairs, analyzedPairs, returned, calls,
          state, isDirty, stateFilePath, stateFile,
          openDocuments, activeDecorations, timeout, handler>>

\* the variables of the pair extractors and of the registry and scanner
extractVars == <<language, documentLines, docCodePairs>>

scanVars == <<parsers, extensionMap, scanResults, parsedPairs, analyzedPairs, returned,
              calls>>

\* the variables of the state manager and of the editor that hosts it
stateVars == <<state, isDirty, stateFilePath, stateFile>>

editorVars == <<openDocuments, activeDecorations, timeout, handler>>

hostVars == <<stateVars, editorVars>>

\* no state manager and no editor exist
HostIdle ==
    /\ state = <<>>
    /\ isDirty = FALSE
    /\ stateFilePath = <<>>
    /\ stateFile = <<>>
    /\ openDocuments = <<>>
    /\ activeDecorations = <<>>
    /\ timeout = <<>>
    /\ handler = <<>>

\* no file is being read
ExtractIdle == language = "" /\ documentLines = <<>> /\ docCodePairs = <<>>

\* no registry and no scanner exist
ScanIdle ==
    /\ parsers = <<>>
    /\ extensionMap = <<>>
    /\ scanResults = <<>>
    /\ parsedPairs = <<>>
    /\ analyzedPairs = <<>>
    /\ returned = <<>>
    /\ calls = <<>>

----------------------------------------------------------------------------
(* Strings                                                                 *)

Chars(s) == [i \in 1..Len(s) |-> SubSeq(s, i, i)]

EmptyStr == <<>>

LowerLetters == {"a", "b", "c", "d", "e", "f", "g", "h", "i", "j", "k", "l", "m",
                 "n", "o", "p", "q", "r", "s", "t", "u", "v", "w", "x", "y", "z"}

UpperLetters == {"A", "B", "C", "D", "E", "F", "G", "H", "I", "J", "K", "L", "M",
                 "N", "O", "P", "Q", "R", "S", "T", "U", "V", "W", "X", "Y", "Z"}

Digits == {"0", "1", "2", "3", "4", "5", "6", "7", "8", "9"}

Whitespace == {" ", "\t", "\n"}

UpperToLower ==
    ("A" :> "a") @@ ("B" :> "b") @@ ("C" :> "c") @@ ("D" :> "d") @@ ("E" :> "e") @@
    ("F" :> "f") @@ ("G" :> "g") @@ ("H" :> "h") @@ ("I" :> "i") @@ ("J" :> "j") @@
    ("K" :> "k") @@ ("L" :> "l") @@ ("M" :> "m") @@ ("N" :> "n") @@ ("O" :> "o") @@
    ("P" :> "p") @@ ("Q" :> "q") @@ ("R" :> "r") @@ ("S" :> "s") @@ ("T" :> "t") @@
    ("U" :> "u") @@ ("V" :> "v") @@ ("W" :> "w") @@ ("X" :> "x") @@ ("Y" :> "y") @@
    ("Z" :> "z")

\* String.prototype.toLowerCase on ASCII text
toLowerCase(str) ==
    [i \in 1..Len(str) |-> IF str[i] \in UpperLetters THEN UpperToLower[str[i]] ELSE str[i]]

\* String.prototype.includes
includes(haystack, needle) ==
    \E i \in 0..(Len(haystack) - Len(needle)) :
        SubSeq(haystack, i + 1, i + Len(needle)) = needle

RECURSIVE CollapseSpaces(_, _, _)
\* str.replace(/\s+/g, ' '): every maximal run of whitespace becomes one blank
CollapseSpaces(str, i, acc) ==
    IF i > Len(str) THEN acc
    ELSE IF str[i] \in Whitespace
         THEN IF i > 1 /\ str[i - 1] \in Whitespace
              THEN CollapseSpaces(str, i + 1, acc)
              ELSE CollapseSpaces(str, i + 1, Append(acc, " "))
         ELSE CollapseSpaces(str, i + 1, Append(acc, str[i]))

\* String.prototype.trim
trim(str) ==
    LET keep == {i \in 1..Len(str) : str[i] \notin Whitespace}
    IN IF keep = {} THEN EmptyStr
       ELSE LET first == CHOOSE i \in keep : \A j \in keep : i <= j
                last  == CHOOSE i \in keep : \A j \in keep : j <= i
            IN SubSeq(str, first, last)

normalizeWhitespace(str) == trim(CollapseSpaces(str, 1, EmptyStr))

Min3(a, b, c) ==
    IF a <= b /\ a <= c THEN a ELSE IF b <= c THEN b ELSE c

RECURSIVE LevRow(_, _, _, _)
\* one row dp[i][0..n] of the table; prev is dp[i-1][0..n], row the cells filled so far
LevRow(prev, ch, str2, row) ==
    IF Len(row) = Len(str2) + 1 THEN row
    ELSE LET j == Len(row)
             cell == IF ch = str2[j]
                     THEN prev[j]
                     ELSE 1 + Min3(prev[j + 1], row[j], prev[j])
         IN LevRow(prev, ch, str2, Append(row, cell))

RECURSIVE LevRows(_, _, _, _)
LevRows(str1, str2, i, prev) ==
    IF i > Len(str1) THEN prev
    ELSE LevRows(str1, str2, i + 1, LevRow(prev, str1[i], str2, <<i>>))

levenshteinDistance(str1, str2) ==
    LevRows(str1, str2, 1, [j \in 1..(Len(str2) + 1) |-> j - 1])[Len(str2) + 1]

NoMatch == [found |-> FALSE, match |-> EmptyStr, distance |-> 0]

RECURSIVE ClosestLoop_LastOnTies(_, _, _, _, _)
\* mutant: distance <= minDistance, so the last of several closest candidates wins
ClosestLoop_LastOnTies(target, candidates, i, closest, minDistance) ==
    IF i > Len(candidates)
    THEN [found |-> TRUE, match |-> closest, distance |-> minDistance]
    ELSE LET distance == levenshteinDistance(target, candidates[i])
         IN IF distance <= minDistance
            THEN ClosestLoop_LastOnTies(target, candidates, i + 1, candidates[i], distance)
            ELSE ClosestLoop_LastOnTies(target, candidates, i + 1, closest, minDistance)

RECURSIVE ClosestLoop(_, _, _, _, _)
ClosestLoop(target, candidates, i, closest, minDistance) ==
    IF i > Len(candidates)
    THEN [found |-> TRUE, match |-> closest, distance |-> minDistance]
    ELSE LET distance == levenshteinDistance(target, candidates[i])
         IN IF distance < minDistance
            THEN ClosestLoop(target, candidates, i + 1, candidates[i], distance)
            ELSE ClosestLoop(target, candidates, i + 1, closest, minDistance)

\* null is modelled by found = FALSE
findClosestMatch(target, candidates) ==
    IF Len(candidates) = 0 THEN NoMatch
    ELSE ClosestLoop(target, candidates, 2, candidates[1],
                     levenshteinDistance(target, candidates[1]))

----------------------------------------------------------------------------
(* IEEE-754 double arithmetic on the values a score can take               *)

LimbBase == 2^29

Dbl(h, l) == [hi |-> h, lo |-> l]

DblZero == Dbl(0, 0)

DblOne == Dbl(2^28, 0)

DblLess(a, b) == a.hi < b.hi \/ (a.hi = b.hi /\ a.lo < b.lo)

\* Math.min
DblMin(a, b) == IF DblLess(b, a) THEN b ELSE a

\* spacing of doubles in the binade of a value whose high limb is hi, in units of 2^-57
UlpUnits(hi) ==
    IF hi >= 2^30 THEN 128
    ELSE IF hi >= 2^29 THEN 64
    ELSE IF hi >= 2^28 THEN 32
    ELSE IF hi >= 2^27 THEN 16
    ELSE IF hi >= 2^26 THEN 8
    ELSE IF hi >= 2^25 THEN 4
    ELSE IF hi >= 2^24 THEN 2
    ELSE 1

\* a + b of two doubles: the exact sum rounded to nearest, ties to even
DblAdd(a, b) ==
    LET sumLo == a.lo + b.lo
        lo0   == sumLo % LimbBase
        hi0   == a.hi + b.hi + (sumLo \div LimbBase)
        u     == UlpUnits(hi0)
        r     == lo0 % u
        q     == lo0 - r
        up    == (2 * r > u) \/ (2 * r = u /\ (q \div u) % 2 = 1)
        lo1   == IF up THEN q + u ELSE q
    IN IF lo1 = LimbBase THEN Dbl(hi0 + 1, 0) ELSE Dbl(hi0, lo1)

\* a * 0.5 (exact)
DblHalf(a) == Dbl(a.hi \div 2, (a.hi % 2) * (LimbBase \div 2) + (a.lo \div 2))

----------------------------------------------------------------------------
(* DriftType and DriftSeverity                                             *)

ParameterMismatch == "parameter_mismatch"
ParameterAdded == "parameter_added"
ParameterRemoved == "parameter_removed"
ParameterRenamed == "parameter_renamed"
ReturnTypeMismatch == "return_type_mismatch"
SignatureChanged == "signature_changed"
CodeContentChanged == "code_content_changed"
DescriptionMismatch == "description_mismatch"
MissingDocumentation == "missing_documentation"
OrphanedDocumentation == "orphaned_documentation"
DeprecatedReference == "deprecated_reference"

DriftType ==
    {ParameterMismatch, ParameterAdded, ParameterRemoved, ParameterRenamed,
     ReturnTypeMismatch, SignatureChanged, CodeContentChanged, DescriptionMismatch,
     MissingDocumentation, OrphanedDocumentation, DeprecatedReference}

Low == "low"
Medium == "medium"
High == "high"
Critical == "critical"

DriftSeverity == {Low, Medium, High, Critical}

\* a DriftReason: subject and match are the names its message quotes
Reason(t, s, subj, m) == [type |-> t, severity |-> s, subject |-> subj, match |-> m]

----------------------------------------------------------------------------
(* DriftAnalyzer.calculateDriftScore                                       *)

\* 0.4
paramMismatchWeight == Dbl(107374182, 214748368)
\* 0.2
returnTypeMismatchWeight == Dbl(53687091, 107374184)
\* 0.25
signatureChangeWeight == Dbl(67108864, 0)
\* 0.15
descriptionMismatchWeight == Dbl(40265318, 214748364)
\* 0.1
defaultWeight == Dbl(26843545, 322122548)

\* mutant: the return-type and signature-change weights are exchanged
TypeWeight_Exchanged(type) ==
    IF type \in {ParameterMismatch, ParameterAdded, ParameterRemoved, ParameterRenamed}
    THEN paramMismatchWeight
    ELSE IF type = ReturnTypeMismatch THEN signatureChangeWeight
    ELSE IF type \in {SignatureChanged, CodeContentChanged} THEN returnTypeMismatchWeight
    ELSE IF type = DescriptionMismatch THEN descriptionMismatchWeight
    ELSE defaultWeight

\* mutant: the switch on reason.type has no default case
TypeWeight_NoDefault(type) ==
    IF type \in {ParameterMismatch, ParameterAdded, ParameterRemoved, ParameterRenamed}
    THEN paramMismatchWeight
    ELSE IF type = ReturnTypeMismatch THEN returnTypeMismatchWeight
    ELSE IF type \in {SignatureChanged, CodeContentChanged} THEN signatureChangeWeight
    ELSE IF type = DescriptionMismatch THEN descriptionMismatchWeight
    ELSE DblZero

\* the switch on reason.type
TypeWeight(type) ==
    IF type \in {ParameterMismatch, ParameterAdded, ParameterRemoved, ParameterRenamed}
    THEN paramMismatchWeight
    ELSE IF type = ReturnTypeMismatch THEN returnTypeMismatchWeight
    ELSE IF type \in {SignatureChanged, CodeContentChanged} THEN signatureChangeWeight
    ELSE IF type = DescriptionMismatch THEN descriptionMismatchWeight
    ELSE defaultWeight

\* weight *= 1.2: the double nearest to the product of the weight and the double 1.2
\* (0.48, 0.24, 0.3, 0.18 and 0.12 as JavaScript computes them)
TimesHigh(weight) ==
    IF weight = paramMismatchWeight THEN Dbl(128849018, 472446400)
    ELSE IF weight = returnTypeMismatchWeight THEN Dbl(64424509, 236223200)
    ELSE IF weight = signatureChangeWeight THEN Dbl(80530636, 429496728)
    ELSE IF weight = descriptionMismatchWeight THEN Dbl(48318382, 42949672)
    ELSE Dbl(32212254, 386547056)

\* the switch on reason.severity; x * 1.5 is x + x/2 rounded once, x * 1.0 and x * 0.5 are exact
SeverityWeight(weight, severity) ==
    IF severity = Critical THEN DblAdd(weight, DblHalf(weight))
    ELSE IF severity = High THEN TimesHigh(weight)
    ELSE IF severity = Medium THEN weight
    ELSE IF severity = Low THEN DblHalf(weight)
    ELSE weight

RECURSIVE ScoreLoop(_, _, _)
ScoreLoop(reasons, i, score) ==
    IF i > Len(reasons) THEN score
    ELSE ScoreLoop(reasons, i + 1,
                   DblAdd(score, SeverityWeight(TypeWeight(reasons[i].type),
                                                reasons[i].severity)))

\* mutant: the final Math.min(1, score) is missing
calculateDriftScore_NoClamp(reasons) ==
    IF Len(reasons) = 0 THEN DblZero
    ELSE ScoreLoop(reasons, 1, DblZero)

calculateDriftScore(reasons) ==
    IF Len(reasons) = 0 THEN DblZero
    ELSE DblMin(DblOne, ScoreLoop(reasons, 1, DblZero))

----------------------------------------------------------------------------
(* DriftAnalyzer.analyzeParameters                                         *)

\* a ParsedDoc is [description, params, returns]; a DocParam is [name, type];
\* an absent (or empty, hence falsy) type or return type is the empty string;
\* returns.present = FALSE is doc.returns === undefined.
\* a CodeSignature is [parameters, returnType]; a ParameterInfo is [name, type].

SelfNames == {Chars("self"), Chars("cls")}

InSeq(seq, x) == \E i \in DOMAIN seq : seq[i] = x

\* signature.parameters.filter(not self/cls).map(p => p.name.toLowerCase())
CodeParamNames(signature) ==
    LET kept == SelectSeq(signature.parameters,
                          LAMBDA p : toLowerCase(p.name) \notin SelfNames)
    IN [i \in DOMAIN kept |-> toLowerCase(kept[i].name)]

\* doc.params.map(p => p.name.toLowerCase())
DocParamNames(doc) == [i \in DOMAIN doc.params |-> toLowerCase(doc.params[i].name)]

RECURSIVE DocumentedLoop(_, _, _, _)
\* first loop: documented params that don't exist in code
DocumentedLoop(params, codeParamNames, i, reasons) ==
    IF i > Len(params) THEN reasons
    ELSE LET docParam  == params[i]
             paramName == toLowerCase(docParam.name)
         IN IF paramName \in SelfNames
            THEN DocumentedLoop(params, codeParamNames, i + 1, reasons)
            ELSE IF ~InSeq(codeParamNames, paramName)
            THEN LET closest == findClosestMatch(paramName, codeParamNames)
                 IN IF closest.found /\ closest.distance <= 2
                    THEN DocumentedLoop(params, codeParamNames, i + 1,
                             Append(reasons, Reason(ParameterRenamed, Medium,
                                                    docParam.name, closest.match)))
                    ELSE DocumentedLoop(params, codeParamNames, i + 1,
                             Append(reasons, Reason(ParameterRemoved, High,
                                                    docParam.name, EmptyStr)))
            ELSE DocumentedLoop(params, codeParamNames, i + 1, reasons)

RECURSIVE UndocumentedLoop_AnyLength(_, _, _, _)
\* mutant: the test codeParam.name.length > 1 is missing
UndocumentedLoop_AnyLength(parameters, docParamNames, i, reasons) ==
    IF i > Len(parameters) THEN reasons
    ELSE LET codeParam == parameters[i]
             paramName == toLowerCase(codeParam.name)
         IN IF paramName \in SelfNames
            THEN UndocumentedLoop_AnyLength(parameters, docParamNames, i + 1, reasons)
            ELSE IF ~InSeq(docParamNames, paramName)
            THEN UndocumentedLoop_AnyLength(parameters, docParamNames, i + 1,
                     Append(reasons, Reason(ParameterAdded, Medium,
                                            codeParam.name, EmptyStr)))
            ELSE UndocumentedLoop_AnyLength(parameters, docParamNames, i + 1, reasons)

RECURSIVE UndocumentedLoop(_, _, _, _)
\* second loop: code params that aren't documented
UndocumentedLoop(parameters, docParamNames, i, reasons) ==
    IF i > Len(parameters) THEN reasons
    ELSE LET codeParam == parameters[i]
             paramName == toLowerCase(codeParam.name)
         IN IF paramName \in SelfNames
            THEN UndocumentedLoop(parameters, docParamNames, i + 1, reasons)
            ELSE IF ~InSeq(docParamNames, paramName) /\ Len(codeParam.name) > 1
            THEN UndocumentedLoop(parameters, docParamNames, i + 1,
                     Append(reasons, Reason(ParameterAdded, Medium,
                                            codeParam.name, EmptyStr)))
            ELSE UndocumentedLoop(parameters, docParamNames, i + 1, reasons)

typeAliases ==
    << {Chars("str"), Chars("string")},
       {Chars("int"), Chars("float"), Chars("number"), Chars("integer")},
       {Chars("bool"), Chars("boolean")},
       {Chars("list"), Chars("array"), Chars("[]")},
       {Chars("dict"), Chars("object"), Chars("map"), Chars("record")},
       {Chars("any"), Chars("object"), Chars("unknown")},
       {Chars("void"), Chars("none"), Chars("null"), Chars("undefined")} >>

\* mutant: the containment fallback is missing
typesMatch_NoContainment(docType, codeType) ==
    \/ docType = codeType
    \/ \E k \in DOMAIN typeAliases : docType \in typeAliases[k] /\ codeType \in typeAliases[k]

typesMatch(docType, codeType) ==
    \/ docType = codeType
    \/ \E k \in DOMAIN typeAliases : docType \in typeAliases[k] /\ codeType \in typeAliases[k]
    \/ includes(docType, codeType)
    \/ includes(codeType, docType)

\* signature.parameters.find(p => p.name.toLowerCase() === name): index of the first, 0 if none
FindParam(parameters, name) ==
    LET hits == {k \in DOMAIN parameters : toLowerCase(parameters[k].name) = name}
    IN IF hits = {} THEN 0 ELSE CHOOSE k \in hits : \A h \in hits : k <= h

RECURSIVE TypeLoop(_, _, _, _)
\* third loop: type mismatches in documented parameters
TypeLoop(params, parameters, i, reasons) ==
    IF i > Len(params) THEN reasons
    ELSE LET docParam == params[i]
             k        == FindParam(parameters, toLowerCase(docParam.name))
         IN IF k # 0 /\ docParam.type # EmptyStr /\ parameters[k].type # EmptyStr
               /\ ~typesMatch(normalizeWhitespace(toLowerCase(docParam.type)),
                              normalizeWhitespace(toLowerCase(parameters[k].type)))
            THEN TypeLoop(params, parameters, i + 1,
                     Append(reasons, Reason(ParameterMismatch, Medium,
                                            docParam.name, EmptyStr)))
            ELSE TypeLoop(params, parameters, i + 1, reasons)

analyzeParameters(doc, signature) ==
    LET r1 == DocumentedLoop(doc.params, CodeParamNames(signature), 1, <<>>)
        r2 == UndocumentedLoop(signature.parameters, DocParamNames(doc), 1, r1)
    IN TypeLoop(doc.params, signature.parameters, 1, r2)

----------------------------------------------------------------------------
(* DriftAnalyzer.analyzeReturnType                                         *)

NonVoidExclusions == {Chars("void"), Chars("none"), Chars("undefined")}

analyzeReturnType(doc, signature) ==
    LET docType  == normalizeWhitespace(toLowerCase(doc.returns.type))
        codeType == normalizeWhitespace(toLowerCase(signature.returnType))
        first  == IF doc.returns.present /\ signature.returnType # EmptyStr
                     /\ docType # EmptyStr /\ ~typesMatch(docType, codeType)
                  THEN <<Reason(ReturnTypeMismatch, Medium, doc.returns.type,
                                signature.returnType)>>
                  ELSE <<>>
        second == IF doc.returns.present /\ signature.returnType = EmptyStr
                     /\ doc.returns.type # EmptyStr
                     /\ toLowerCase(doc.returns.type) \notin NonVoidExclusions
                  THEN <<Reason(ReturnTypeMismatch, Low, doc.returns.type, EmptyStr)>>
                  ELSE <<>>
    IN first \o second

----------------------------------------------------------------------------
(* DriftAnalyzer.analyzeDescription                                        *)

\* A description is a sequence of tokens [word, quoted]: its text is the words
\* separated by blanks, a quoted word standing between two back-ticks.  A code
\* body is the sequence of its maximal runs of word characters.  Both regular
\* expressions of the analyzer are anchored by \b on either side and match word
\* characters only, so each match is one whole word.

\* /^[a-zA-Z_][a-zA-Z0-9_]*$/
IsIdentifier(w) ==
    /\ Len(w) >= 1
    /\ w[1] \in LowerLetters \cup UpperLetters \cup {"_"}
    /\ \A i \in 2..Len(w) : w[i] \in LowerLetters \cup UpperLetters \cup Digits \cup {"_"}

\* /\b([a-z][a-zA-Z0-9]*[A-Z][a-zA-Z0-9]*)\b/
IsCamelCase(w) ==
    /\ Len(w) >= 2
    /\ w[1] \in LowerLetters
    /\ \A i \in 2..Len(w) : w[i] \in LowerLetters \cup UpperLetters \cup Digits
    /\ \E i \in 2..Len(w) : w[i] \in UpperLetters

\* /\b([a-z][a-z0-9]*_[a-z][a-z0-9_]*)\b/
IsSnakeCase(w) ==
    /\ Len(w) >= 3
    /\ w[1] \in LowerLetters
    /\ \E k \in 2..(Len(w) - 1) :
          /\ w[k] = "_"
          /\ \A i \in 2..(k - 1) : w[i] \in LowerLetters \cup Digits
          /\ w[k + 1] \in LowerLetters
          /\ \A i \in (k + 2)..Len(w) : w[i] \in LowerLetters \cup Digits \cup {"_"}

keywords ==
    {Chars(k) : k \in
        {"function", "const", "let", "var", "class", "interface", "type",
         "return", "if", "else", "for", "while", "do", "switch", "case",
         "break", "continue", "try", "catch", "finally", "throw",
         "import", "export", "from", "default", "async", "await",
         "new", "this", "super", "extends", "implements", "static",
         "public", "private", "protected", "readonly", "abstract",
         "true", "false", "null", "undefined", "void", "never",
         "def", "self", "cls", "lambda", "pass", "raise", "with", "as",
         "func", "struct", "impl", "trait", "pub", "mut", "fn", "mod",
         "package", "main", "fmt", "println", "print"}}

extractIdentifiers(code) ==
    SelectSeq(code, LAMBDA w : IsIdentifier(w) /\ toLowerCase(w) \notin keywords)

RECURSIVE Dedupe(_, _, _)
\* [...new Set(xs)]: first occurrences, in order
Dedupe(xs, i, acc) ==
    IF i > Len(xs) THEN acc
    ELSE IF InSeq(acc, xs[i]) THEN Dedupe(xs, i + 1, acc)
    ELSE Dedupe(xs, i + 1, Append(acc, xs[i]))

Words(tokens) == [i \in DOMAIN tokens |-> tokens[i].word]

extractDescriptionReferences(description) ==
    LET backticks == Words(SelectSeq(description,
                               LAMBDA t : t.quoted /\ IsIdentifier(t.word)))
        camel     == Words(SelectSeq(description, LAMBDA t : IsCamelCase(t.word)))
        snake     == Words(SelectSeq(description, LAMBDA t : IsSnakeCase(t.word)))
    IN Dedupe(backticks \o camel \o snake, 1, <<>>)

RECURSIVE DescriptionLoop_AnyLength(_, _, _, _)
\* mutant: references of one or two characters are not skipped
DescriptionLoop_AnyLength(refs, codeIdentifiers, i, reasons) ==
    IF i > Len(refs) THEN reasons
    ELSE LET ref      == refs[i]
             refLower == toLowerCase(ref)
         IN IF ~InSeq(codeIdentifiers, refLower)
            THEN LET closest == findClosestMatch(refLower, codeIdentifiers)
                 IN IF closest.found /\ closest.distance <= 2 /\ closest.distance > 0
                    THEN DescriptionLoop_AnyLength(refs, codeIdentifiers, i + 1,
                             Append(reasons, Reason(DescriptionMismatch, Low,
                                                    ref, closest.match)))
                    ELSE DescriptionLoop_AnyLength(refs, codeIdentifiers, i + 1, reasons)
            ELSE DescriptionLoop_AnyLength(refs, codeIdentifiers, i + 1, reasons)

RECURSIVE DescriptionLoop(_, _, _, _)
DescriptionLoop(refs, codeIdentifiers, i, reasons) ==
    IF i > Len(refs) THEN reasons
    ELSE LET ref      == refs[i]
             refLower == toLowerCase(ref)
         IN IF Len(ref) <= 2
            THEN DescriptionLoop(refs, codeIdentifiers, i + 1, reasons)
            ELSE IF ~InSeq(codeIdentifiers, refLower)
            THEN LET closest == findClosestMatch(refLower, codeIdentifiers)
                 IN IF closest.found /\ closest.distance <= 2 /\ closest.distance > 0
                    THEN DescriptionLoop(refs, codeIdentifiers, i + 1,
                             Append(reasons, Reason(DescriptionMismatch, Low,
                                                    ref, closest.match)))
                    ELSE DescriptionLoop(refs, codeIdentifiers, i + 1, reasons)
            ELSE DescriptionLoop(refs, codeIdentifiers, i + 1, reasons)

\* Array.from(new Set(extractIdentifiers(codeContent).map(i => i.toLowerCase())))
CodeIdentifiers(code) ==
    LET ids == extractIdentifiers(code)
    IN Dedupe([i \in DOMAIN ids |-> toLowerCase(ids[i])], 1, <<>>)

analyzeDescription(doc, code) ==
    DescriptionLoop(extractDescriptionReferences(doc.description),
                    CodeIdentifiers(code), 1, <<>>)

----------------------------------------------------------------------------
(* DriftAnalyzer.analyzePair                                               *)

\* mutant: the return type is analysed before the parameters
analyzePairReasons_ReturnFirst(doc, signature, code) ==
    analyzeReturnType(doc, signature)
        \o analyzeParameters(doc, signature)
        \o analyzeDescription(doc, code)

analyzePairReasons(doc, signature, code) ==
    analyzeParameters(doc, signature)
        \o analyzeReturnType(doc, signature)
        \o analyzeDescription(doc, code)

----------------------------------------------------------------------------
(* Inputs                                                                  *)

SeqsUpTo(S, n) == UNION {[1..k -> S] : k \in 0..n}

NoParsedDoc ==
    [description |-> <<>>, params |-> <<>>, returns |-> [present |-> FALSE, type |-> EmptyStr]]

NoSignature == [parameters |-> <<>>, returnType |-> EmptyStr]

MaxReasons == 3

\* reason kinds that occur together in the scored lists
ScoredKinds ==
    {<<ParameterMismatch, Medium>>, <<ParameterAdded, Medium>>, <<ParameterRemoved, High>>,
     <<ParameterRenamed, Medium>>, <<ReturnTypeMismatch, Medium>>, <<ReturnTypeMismatch, Low>>,
     <<SignatureChanged, High>>, <<CodeContentChanged, Medium>>, <<DescriptionMismatch, Low>>,
     <<DescriptionMismatch, Critical>>, <<MissingDocumentation, Low>>,
     <<OrphanedDocumentation, Critical>>}

KindReason(k) == Reason(k[1], k[2], EmptyStr, EmptyStr)

ScoredLists ==
    {[i \in DOMAIN ks |-> KindReason(ks[i])] : ks \in SeqsUpTo(ScoredKinds, MaxReasons)}
    \cup {<<Reason(t, s, EmptyStr, EmptyStr)>> : t \in DriftType, s \in DriftSeverity}
    \cup {<<Reason(t, s, EmptyStr, EmptyStr), Reason(t, s, EmptyStr, EmptyStr)>> :
             t \in DriftType, s \in DriftSeverity}

\* parameter lists, checked name against name
MaxDocParams == 2

MaxCodeParams == 2

DocNames == {Chars(n) : n \in {"oldParam", "userId", "USER_ID", "self"}}

CodeNames == {Chars(n) : n \in {"user_id", "usrId", "x", "cls"}}

Untyped(names) == [i \in DOMAIN names |-> [name |-> names[i], type |-> EmptyStr]]

NoReturns == [present |-> FALSE, type |-> EmptyStr]

InitNames ==
    /\ \E names \in SeqsUpTo(DocNames, MaxDocParams) :
          parsedDoc = [description |-> <<>>, params |-> Untyped(names), returns |-> NoReturns]
    /\ \E names \in SeqsUpTo(CodeNames, MaxCodeParams) :
          codeSignature = [parameters |-> Untyped(names), returnType |-> EmptyStr]
    /\ codeContent = <<>>

\* type spellings, checked one against one
TypeStrings ==
    {Chars(t) : t \in
        {"string", "String", "str", " string  ", "number", "int", "integer", "float",
         "boolean", "bool", "array", "list", "[]", "object", "dict", "map", "record",
         "any", "unknown", "void", "Void", "none", "None", "null", "undefined",
         "string[]", "string | null", "string |  null", "bitmap", "Promise<void>"}}

SharedNames ==
    {<<Chars("userId"), Chars("userId")>>, <<Chars("userId"), Chars("UserID")>>,
     <<Chars("self"), Chars("self")>>, <<Chars("userId"), Chars("user_id")>>}

InitTypes ==
    /\ \E n \in SharedNames, docType \in TypeStrings \cup {EmptyStr},
          codeType \in TypeStrings \cup {EmptyStr} :
          /\ parsedDoc = [description |-> <<>>,
                          params |-> <<[name |-> n[1], type |-> docType]>>,
                          returns |-> NoReturns]
          /\ codeSignature = [parameters |-> <<[name |-> n[2], type |-> codeType]>>,
                              returnType |-> EmptyStr]
    /\ codeContent = <<>>

InitReturns ==
    /\ \E r \in {NoReturns} \cup {[present |-> TRUE, type |-> t] :
                                     t \in TypeStrings \cup {EmptyStr}} :
          parsedDoc = [description |-> <<>>, params |-> <<>>, returns |-> r]
    /\ \E t \in TypeStrings \cup {EmptyStr} :
          codeSignature = [parameters |-> <<>>, returnType |-> t]
    /\ codeContent = <<>>

\* descriptions against code bodies
MaxTokens == 2

MaxCodeWords == 2

Token(w, q) == [word |-> Chars(w), quoted |-> q]

DescTokens ==
    {Token("userId", FALSE), Token("user_id", FALSE), Token("sums", FALSE),
     Token("Sums", TRUE), Token("Sum", TRUE), Token("returns", TRUE), Token("sU", FALSE)}

CodeWords == {Chars(w) : w \in {"usrId", "sum", "return"}}

InitDescription ==
    /\ \E d \in SeqsUpTo(DescTokens, MaxTokens) :
          parsedDoc = [description |-> d, params |-> <<>>, returns |-> NoReturns]
    /\ codeSignature = NoSignature
    /\ codeContent \in SeqsUpTo(CodeWords, MaxCodeWords)

\* all three analyses at once
Param(n, t) == [name |-> Chars(n), type |-> Chars(t)]

MixedDocParams == {Param("userId", "string"), Param("oldParam", "number")}

MixedCodeParams == {Param("userId", "number"), Param("newParam", "")}

InitMixed ==
    /\ \E ps \in SeqsUpTo(MixedDocParams, MaxDocParams),
          r \in {NoReturns, [present |-> TRUE, type |-> Chars("string")]},
          d \in {<<>>, <<Token("userId", FALSE)>>} :
          parsedDoc = [description |-> d, params |-> ps, returns |-> r]
    /\ \E ps \in SeqsUpTo(MixedCodeParams, MaxCodeParams), t \in {"", "number"} :
          codeSignature = [parameters |-> ps, returnType |-> Chars(t)]
    /\ codeContent \in {<<>>, <<Chars("usrId")>>}

----------------------------------------------------------------------------
(* analyzePair applied to one pair                                         *)

Init ==
    /\ pc = "parsed"
    /\ driftReasons = <<>>
    /\ driftScore = DblZero
    /\ (InitNames \/ InitTypes \/ InitReturns \/ InitDescription \/ InitMixed)
    /\ ExtractIdle
    /\ ScanIdle
    /\ HostIdle

AnalyzePair ==
    /\ pc = "parsed"
    /\ LET reasons == analyzePairReasons(parsedDoc, codeSignature, codeContent)
       IN /\ driftReasons' = reasons
          /\ driftScore' = calculateDriftScore(reasons)
    /\ pc' = "analyzed"
    /\ UNCHANGED <<parsedDoc, codeSignature, codeContent, extractVars, scanVars, hostVars>>

Next == AnalyzePair

Spec == Init /\ [][Next]_vars

----------------------------------------------------------------------------
(* The scoring function on its own: a reason list is given, the score is   *)
(* computed from it                                                        *)

InitScore ==
    /\ pc = "reasons"
    /\ parsedDoc = NoParsedDoc
    /\ codeSignature = NoSignature
    /\ codeContent = <<>>
    /\ driftReasons \in ScoredLists
    /\ driftScore = DblZero
    /\ ExtractIdle
    /\ ScanIdle
    /\ HostIdle

CalculateDriftScore ==
    /\ pc = "reasons"
    /\ driftScore' = calculateDriftScore(driftReasons)
    /\ pc' = "scored"
    /\ UNCHANGED <<parsedDoc, codeSignature, codeContent, driftReasons, extractVars, scanVars, hostVars>>

NextScore == CalculateDriftScore

SpecScore == InitScore /\ [][NextScore]_vars

----------------------------------------------------------------------------
(* Properties of the score                                                 *)

Analyzed == pc = "analyzed"

Scored == pc = "scored"

HasType(reasons, types) == \E i \in DOMAIN reasons : reasons[i].type \in types

OfTypes(reasons, types) == SelectSeq(reasons, LAMBDA r : r.type \in types)

\* C1: every pair returned by analyzePair has a drift score in [0,1], and a pair
\* without drift reasons has the score 0.
C1_ScoreInUnitInterval ==
    Analyzed =>
        /\ driftScore.hi >= 0 /\ driftScore.lo >= 0
        /\ ~DblLess(DblOne, driftScore)
        /\ (driftReasons = <<>> => driftScore = DblZero)

\* the clamp acted: four parameter reasons, worth 1.76 together, score exactly 1
C1_Witness ==
    /\ Analyzed
    /\ Len(driftReasons) = 4
    /\ \A i \in DOMAIN driftReasons : driftReasons[i].type \in {ParameterRemoved, ParameterAdded}
    /\ driftScore = DblOne

\* the weight table of the claim, in ten-thousandths
TableBase(type) ==
    IF type \in {ParameterMismatch, ParameterAdded, ParameterRemoved, ParameterRenamed} THEN 4000
    ELSE IF type = ReturnTypeMismatch THEN 2000
    ELSE IF type \in {SignatureChanged, CodeContentChanged} THEN 2500
    ELSE IF type = DescriptionMismatch THEN 1500
    ELSE 1000

\* the severity multipliers of the claim, in tenths
TableMult(severity) ==
    IF severity = Critical THEN 15
    ELSE IF severity = High THEN 12
    ELSE IF severity = Medium THEN 10
    ELSE 5

RECURSIVE TableSum(_, _)
\* sum over the reasons of base x mult, in ten-thousandths
TableSum(reasons, i) ==
    IF i > Len(reasons) THEN 0
    ELSE (TableBase(reasons[i].type) * TableMult(reasons[i].severity)) \div 10
         + TableSum(reasons, i + 1)

TableScore(reasons) ==
    IF TableSum(reasons, 1) > 10000 THEN 10000 ELSE TableSum(reasons, 1)

\* the high limb (units of 2^-28) of t ten-thousandths, rounded down
HighLimbOf(t) == t * 26843 + (t * 5456) \div 10000

\* two doubles less than 2^-27 (about 7.5e-9) apart
WithinRounding(a, b) == a.hi - b.hi \in {-1, 0, 1}

Reorderings(reasons) ==
    {[i \in DOMAIN reasons |-> reasons[p[i]]] : p \in Permutations(DOMAIN reasons)}

\* C2 as stated: the score is min(1, sum of base x mult) and is the same for every
\* order of the reasons.
C2_OrderIndependent ==
    Scored =>
        /\ WithinRounding(driftScore, Dbl(HighLimbOf(TableScore(driftReasons)), 0))
        /\ \A rs \in Reorderings(driftReasons) : calculateDriftScore(rs) = driftScore

\* C2 amended: the score equals min(1, sum of base x mult) up to the rounding of the
\* double additions (less than 1e-8), and reordering the reasons changes it by no
\* more than that.
C2_ScoreWithinRounding ==
    Scored =>
        /\ WithinRounding(driftScore, Dbl(HighLimbOf(TableScore(driftReasons)), 0))
        /\ \A rs \in Reorderings(driftReasons) :
              WithinRounding(calculateDriftScore(rs), driftScore)

\* three reasons below the clamp whose sum depends on the order of the additions
C2_Witness ==
    /\ Scored
    /\ Len(driftReasons) = 3
    /\ DblLess(driftScore, DblOne)
    /\ \E rs \in Reorderings(driftReasons) : calculateDriftScore(rs) # driftScore

\* rank of a reason category in the order the claim gives: parameter, return type,
\* signature/content change, description
ClaimedRank(type) ==
    IF type \in {ParameterMismatch, ParameterAdded, ParameterRemoved, ParameterRenamed} THEN 1
    ELSE IF type = ReturnTypeMismatch THEN 2
    ELSE IF type \in {SignatureChanged, CodeContentChanged} THEN 3
    ELSE IF type = DescriptionMismatch THEN 4
    ELSE 0

\* rank of a reason category by the weights of the code: parameter, signature/content
\* change, return type, description
WeightRank(type) ==
    IF type \in {ParameterMismatch, ParameterAdded, ParameterRemoved, ParameterRenamed} THEN 1
    ELSE IF type \in {SignatureChanged, CodeContentChanged} THEN 2
    ELSE IF type = ReturnTypeMismatch THEN 3
    ELSE IF type = DescriptionMismatch THEN 4
    ELSE 0

SingleScore(type, severity) ==
    calculateDriftScore(<<Reason(type, severity, EmptyStr, EmptyStr)>>)

\* C10 as stated: at equal severity a reason of a category contributes strictly more
\* than a reason of any category the claim ranks after it (return type before
\* signature/content change).
C10_ClaimedOrder ==
    (Scored /\ Len(driftReasons) = 1 /\ ClaimedRank(driftReasons[1].type) > 0) =>
        \A t \in DriftType :
            ClaimedRank(t) > ClaimedRank(driftReasons[1].type) =>
                DblLess(SingleScore(t, driftReasons[1].severity), driftScore)

\* C10 amended: the base weights are strictly ordered parameter family (0.4), then
\* signature/content change (0.25), then return type (0.2), then description (0.15):
\* at equal severity a SignatureChanged or CodeContentChanged reason contributes
\* more than a ReturnTypeMismatch, and each category more than those after it.
C10_WeightOrder ==
    (Scored /\ Len(driftReasons) = 1 /\ WeightRank(driftReasons[1].type) > 0) =>
        \A t \in DriftType :
            /\ WeightRank(t) > WeightRank(driftReasons[1].type) =>
                  DblLess(SingleScore(t, driftReasons[1].severity), driftScore)
            /\ WeightRank(t) = WeightRank(driftReasons[1].type) =>
                  SingleScore(t, driftReasons[1].severity) = driftScore

\* a lone signature change, scored above a return-type mismatch of the same severity
C10_Witness ==
    /\ Scored
    /\ Len(driftReasons) = 1
    /\ driftReasons[1].type = SignatureChanged
    /\ DblLess(SingleScore(ReturnTypeMismatch, driftReasons[1].severity), driftScore)

----------------------------------------------------------------------------
(* Properties of the parameter analysis                                    *)

DocParams == parsedDoc.params

CodeParams == codeSignature.parameters

LowerName(p) == toLowerCase(p.name)

\* the code parameters that count: all but self and cls
CountedCode == {k \in DOMAIN CodeParams : LowerName(CodeParams[k]) \notin SelfNames}

\* the counted code parameters, each with the edit distance of its name from n
Distances(n) ==
    {<<k, levenshteinDistance(n, LowerName(CodeParams[k]))>> : k \in CountedCode}

\* the pair of the smallest distance, the first in declaration order among equals
FirstClosest(distances) ==
    CHOOSE p \in distances :
        \A q \in distances : p[2] < q[2] \/ (p[2] = q[2] /\ p[1] <= q[1])

\* documented parameters (not self/cls) whose name no counted code parameter has
DocumentedOnly ==
    {i \in DOMAIN DocParams :
        /\ LowerName(DocParams[i]) \notin SelfNames
        /\ \A k \in CountedCode : LowerName(CodeParams[k]) # LowerName(DocParams[i])}

\* code parameters (not self/cls, longer than one character) that are not documented
UndocumentedLong ==
    {k \in CountedCode :
        /\ Len(CodeParams[k].name) > 1
        /\ \A i \in DOMAIN DocParams : LowerName(DocParams[i]) # LowerName(CodeParams[k])}

\* the j-th smallest element of a set of indices
Nth(S, j) == CHOOSE i \in S : Cardinality({x \in S : x < i}) = j - 1

ExpectedDocumentedReason(i) ==
    LET distances == Distances(LowerName(DocParams[i]))
    IN IF distances # {} /\ FirstClosest(distances)[2] \in {1, 2}
       THEN Reason(ParameterRenamed, Medium, DocParams[i].name,
                   LowerName(CodeParams[FirstClosest(distances)[1]]))
       ELSE Reason(ParameterRemoved, High, DocParams[i].name, EmptyStr)

NamesOf(params) == [i \in DOMAIN params |-> params[i].name]

\* C4: each code parameter whose name is longer than one character, is not self/cls
\* and is not documented gets exactly one ParameterAdded (Medium), and no other
\* parameter gets one; documentation of oldParam alone against code declaring
\* newParam alone gives one ParameterRemoved (High), one ParameterAdded (Medium) and
\* a score above 0.
C4_CodeSide ==
    Analyzed =>
        LET actual == OfTypes(driftReasons, {ParameterAdded})
            added  == UndocumentedLong
        IN /\ Len(actual) = Cardinality(added)
           /\ \A j \in DOMAIN actual :
                 actual[j] = Reason(ParameterAdded, Medium,
                                    CodeParams[Nth(added, j)].name, EmptyStr)
           /\ (NamesOf(DocParams) = <<Chars("oldParam")>>
                  /\ NamesOf(CodeParams) = <<Chars("newParam")>>)
              => /\ OfTypes(driftReasons, {ParameterRemoved, ParameterRenamed, ParameterAdded})
                       = << Reason(ParameterRemoved, High, Chars("oldParam"), EmptyStr),
                            Reason(ParameterAdded, Medium, Chars("newParam"), EmptyStr) >>
                 /\ DblLess(DblZero, driftScore)

\* the drift scenario next to parameters that get no ParameterAdded
C4_Witness ==
    /\ Analyzed
    /\ NamesOf(DocParams) = <<Chars("oldParam")>>
    /\ NamesOf(CodeParams) = <<Chars("newParam")>>
    /\ Len(driftReasons) = 2

\* C5: the rename scenario, documented userId against declared user_id (absent from
\* the code, one edit from the code parameter), gives exactly one ParameterRenamed
\* naming user_id, and no ParameterRemoved and no ParameterAdded for userId or user_id.
C5_RenameOnly ==
    (/\ Analyzed
     /\ Len(DocParams) = 1 /\ Len(CodeParams) = 1
     /\ NamesOf(DocParams) = <<Chars("userId")>>
     /\ NamesOf(CodeParams) = <<Chars("user_id")>>)
    => /\ OfTypes(driftReasons, {ParameterRenamed})
             = <<Reason(ParameterRenamed, Medium, DocParams[1].name, LowerName(CodeParams[1]))>>
       /\ \A i \in DOMAIN driftReasons :
             driftReasons[i].type \in {ParameterRemoved, ParameterAdded}
                => driftReasons[i].subject \notin {DocParams[1].name, CodeParams[1].name}

\* the type-equivalence test: equal, in one alias class, or one containing the other
Equivalent(classes, a, b) ==
    \/ a = b
    \/ \E c \in classes : a \in c /\ b \in c
    \/ includes(a, b)
    \/ includes(b, a)

ClaimedAliasClasses ==
    { {Chars("string"), Chars("str")},
      {Chars("number"), Chars("int"), Chars("float"), Chars("integer")},
      {Chars("boolean"), Chars("bool")},
      {Chars("array"), Chars("list"), Chars("[]")},
      {Chars("object"), Chars("dict"), Chars("map"), Chars("record")},
      {Chars("any"), Chars("unknown")},
      {Chars("void"), Chars("none"), Chars("null"), Chars("undefined")} }

AliasClassesWithObjectAny ==
    (ClaimedAliasClasses \ {{Chars("any"), Chars("unknown")}})
        \cup {{Chars("any"), Chars("object"), Chars("unknown")}}

NormalType(t) == normalizeWhitespace(toLowerCase(t))

\* the first code parameter with the name of documented parameter i, 0 if none
SameNamed(i) ==
    LET hits == {k \in DOMAIN CodeParams : LowerName(CodeParams[k]) = LowerName(DocParams[i])}
    IN IF hits = {} THEN 0 ELSE CHOOSE k \in hits : \A h \in hits : k <= h

\* documented parameters typed on both sides whose types are not equivalent
Mistyped(classes) ==
    {i \in DOMAIN DocParams :
        /\ SameNamed(i) # 0
        /\ DocParams[i].type # EmptyStr
        /\ CodeParams[SameNamed(i)].type # EmptyStr
        /\ ~Equivalent(classes, NormalType(DocParams[i].type),
                       NormalType(CodeParams[SameNamed(i)].type))}

TypeReasonsFor(classes) ==
    LET actual   == OfTypes(driftReasons, {ParameterMismatch})
        mistyped == Mistyped(classes)
    IN /\ Len(actual) = Cardinality(mistyped)
       /\ \A j \in DOMAIN actual :
             actual[j] = Reason(ParameterMismatch, Medium,
                                DocParams[Nth(mistyped, j)].name, EmptyStr)

\* C6 as stated: ParameterMismatch (Medium) exactly for the parameters typed on both
\* sides whose normalized types are unequal, share no alias class of the claimed
\* table (with the class {any, unknown}) and do not contain one another.
C6_ClaimedAliases == Analyzed => TypeReasonsFor(ClaimedAliasClasses)

\* C6 amended: the same with the alias class {any, object, unknown} in place of
\* {any, unknown}: object is equivalent to any and to unknown as well as to dict,
\* map and record.
C6_TypeMismatch == Analyzed => TypeReasonsFor(AliasClassesWithObjectAny)

\* documented object against declared any: typed on both sides, no reason
C6_Witness ==
    /\ Analyzed
    /\ Len(DocParams) = 1 /\ Len(CodeParams) = 1
    /\ SameNamed(1) = 1
    /\ DocParams[1].type = Chars("object")
    /\ CodeParams[1].type = Chars("any")
    /\ driftReasons = <<>>

----------------------------------------------------------------------------
(* Properties of the return-type and description analyses                  *)

ClaimedVoidSpellings == {Chars("void"), Chars("none"), Chars("null"), Chars("undefined")}

Severities(reasons) == [i \in DOMAIN reasons |-> reasons[i].severity]

ExpectedReturnSeverities(voidSpellings) ==
    LET declared == parsedDoc.returns.present /\ parsedDoc.returns.type # EmptyStr
    IN IF declared /\ codeSignature.returnType # EmptyStr
       THEN IF Equivalent(AliasClassesWithObjectAny, NormalType(parsedDoc.returns.type),
                          NormalType(codeSignature.returnType))
            THEN <<>> ELSE <<Medium>>
       ELSE IF declared /\ toLowerCase(parsedDoc.returns.type) \notin voidSpellings
       THEN <<Low>>
       ELSE <<>>

\* C7: with a return type on both sides there is one ReturnTypeMismatch (Medium) iff
\* the two are not equivalent; with a documented return type other than void, none,
\* null or undefined and no declared one there is one ReturnTypeMismatch (Low); there
\* is none otherwise.
C7_ReturnType ==
    Analyzed =>
        Severities(OfTypes(driftReasons, {ReturnTypeMismatch}))
            = ExpectedReturnSeverities(ClaimedVoidSpellings)

\* what the code does: null is not among the spellings it exempts
C7_ReturnTypeAsCoded ==
    Analyzed =>
        Severities(OfTypes(driftReasons, {ReturnTypeMismatch}))
            = ExpectedReturnSeverities(ClaimedVoidSpellings \ {Chars("null")})

Range(seq) == {seq[i] : i \in DOMAIN seq}

\* identifier-like words of the description: back-tick quoted, camelCase or snake_case
DescribedTokens ==
    {t.word : t \in {u \in Range(parsedDoc.description) :
                        \/ u.quoted /\ IsIdentifier(u.word)
                        \/ IsCamelCase(u.word)
                        \/ IsSnakeCase(u.word)}}

\* lower-cased identifiers of the code body, keywords left out
BodyIdentifiers ==
    {toLowerCase(w) : w \in {v \in Range(codeContent) :
                                IsIdentifier(v) /\ toLowerCase(v) \notin keywords}}

\* tokens longer than 2 that the body lacks and that are 1 or 2 edits from an identifier
StaleTokens(identifiers) ==
    {t \in DescribedTokens :
        /\ Len(t) > 2
        /\ toLowerCase(t) \notin identifiers
        /\ \E c \in identifiers : levenshteinDistance(toLowerCase(t), c) \in {1, 2}}

----------------------------------------------------------------------------
(* Order of the reasons                                                    *)

DetectionRank(type) ==
    IF type \in {ParameterRenamed, ParameterRemoved} THEN 1
    ELSE IF type = ParameterAdded THEN 2
    ELSE IF type = ParameterMismatch THEN 3
    ELSE IF type = ReturnTypeMismatch THEN 4
    ELSE 5

RECURSIVE IsSubsequence(_, _)
\* a is b with some elements left out
IsSubsequence(a, b) ==
    IF a = <<>> THEN TRUE
    ELSE IF b = <<>> THEN FALSE
    ELSE IF Head(a) = Head(b) THEN IsSubsequence(Tail(a), Tail(b))
    ELSE IsSubsequence(a, Tail(b))

Subjects(reasons) == [i \in DOMAIN reasons |-> reasons[i].subject]

\* C9: parameter reasons precede return-type reasons, which precede description
\* reasons; among the parameter reasons the Renamed/Removed come first in documented
\* order, then the Added in declaration order, then the Mismatch in documented order.
C9_DetectionOrder ==
    Analyzed =>
        /\ \A i, j \in DOMAIN driftReasons :
              i < j => DetectionRank(driftReasons[i].type) <= DetectionRank(driftReasons[j].type)
        /\ IsSubsequence(Subjects(OfTypes(driftReasons, {ParameterRenamed, ParameterRemoved})),
                         NamesOf(DocParams))
        /\ IsSubsequence(Subjects(OfTypes(driftReasons, {ParameterAdded})),
                         NamesOf(CodeParams))
        /\ IsSubsequence(Subjects(OfTypes(driftReasons, {ParameterMismatch})),
                         NamesOf(DocParams))

\* a pair with a reason of each of the five groups
C9_Witness ==
    /\ Analyzed
    /\ {DetectionRank(driftReasons[i].type) : i \in DOMAIN driftReasons} = 1..5

----------------------------------------------------------------------------
(* Text helpers of the pair extractors                                     *)
(* A file is the sequence of its lines (text.split('\n')); line numbers    *)
(* are the code's, counted from 0, so line i of the code is lines[i + 1].  *)

WordChars == LowerLetters \cup UpperLetters \cup Digits \cup {"_"}

\* String.prototype.startsWith
startsWith(str, prefix) ==
    Len(prefix) <= Len(str) /\ SubSeq(str, 1, Len(prefix)) = prefix

\* String.prototype.endsWith
endsWith(str, suffix) ==
    Len(suffix) <= Len(str) /\ SubSeq(str, Len(str) - Len(suffix) + 1, Len(str)) = suffix

\* String.prototype.indexOf of one character, counted from 1; 0 when absent
indexOf(str, ch) ==
    IF \E i \in 1..Len(str) : str[i] = ch
    THEN CHOOSE i \in 1..Len(str) : str[i] = ch /\ \A j \in 1..(i - 1) : str[j] # ch
    ELSE 0

\* String.prototype.lastIndexOf of one character, counted from 1; 0 when absent
lastIndexOf(str, ch) ==
    IF \E i \in 1..Len(str) : str[i] = ch
    THEN CHOOSE i \in 1..Len(str) : str[i] = ch /\ \A j \in (i + 1)..Len(str) : str[j] # ch
    ELSE 0

\* the first position at or after i that holds no character of set (Len + 1 if none)
SkipChars(str, i, set) ==
    IF \E k \in i..Len(str) : str[k] \notin set
    THEN CHOOSE k \in i..Len(str) : str[k] \notin set /\ \A j \in i..(k - 1) : str[j] \in set
    ELSE Len(str) + 1

\* str.slice(i - 1): the text from position i on
From(str, i) == SubSeq(str, i, Len(str))

\* number of occurrences of a character
CountOf(str, ch) == Cardinality({i \in 1..Len(str) : str[i] = ch})

\* the length of line i of the file (lines[i].length)
LineLength(lines, i) == Len(lines[i + 1])

\* lines.slice(from, to + 1), kept as lines (the code joins them with '\n')
SliceLines(lines, from, to) ==
    IF to < from THEN <<>> ELSE SubSeq(lines, from + 1, IF to + 1 > Len(lines) THEN Len(lines) ELSE to + 1)

\* vscode.Range of the two positions, and the pair made by BaseParser.createPair
vscodeRange(startLine, startChar, endLine, endChar) ==
    [start |-> [line |-> startLine, character |-> startChar],
     end   |-> [line |-> endLine, character |-> endChar]]

createPair(docRange, docContent, docType, codeRange, code) ==
    [docRange |-> docRange, docContent |-> docContent, docType |-> docType,
     codeRange |-> codeRange, codeContent |-> code]


----------------------------------------------------------------------------
(* GoParser.parseDocCodePairs                                              *)

GoDoc == "godoc"
RustDoc == "rustdoc"
JavaDoc == "javadoc"
JSDoc == "jsdoc"
PyDoc == "pydoc"

\* commentRegex /^\s*\/\/\s?(.*)$/ on a trimmed line
GoCommentMatch(trimmedLine) == startsWith(trimmedLine, <<"/", "/">>)

\* funcRegex /^func\s+(\w+)\s*\((.*?)\)/ on a trimmed line
GoFuncMatch(trimmedLine) ==
    /\ startsWith(trimmedLine, <<"f", "u", "n", "c">>)
    /\ LET name   == SkipChars(trimmedLine, 5, Whitespace)
           after  == SkipChars(trimmedLine, name, WordChars)
           paren  == SkipChars(trimmedLine, after, Whitespace)
       IN /\ name > 5
          /\ after > name
          /\ paren <= Len(trimmedLine)
          /\ trimmedLine[paren] = "("
          /\ \E k \in (paren + 1)..Len(trimmedLine) : trimmedLine[k] = ")"

RECURSIVE GoLoop_DocThroughDeclaration(_, _, _, _, _)
\* GoLoop with a documentation range that ends on the declaration line
GoLoop_DocThroughDeclaration(lines, i, currentDocLines, docStartLine, pairs) ==
    IF i >= Len(lines) THEN pairs
    ELSE LET line        == lines[i + 1]
             trimmedLine == trim(line)
         IN IF GoCommentMatch(trimmedLine)
            THEN GoLoop_DocThroughDeclaration(lines, i + 1, Append(currentDocLines, line),
                        IF Len(currentDocLines) = 0 THEN i ELSE docStartLine, pairs)
            ELSE IF GoFuncMatch(trimmedLine) /\ Len(currentDocLines) > 0
                 THEN GoLoop_DocThroughDeclaration(lines, i + 1, <<>>, -1,
                             Append(pairs,
                                    createPair(vscodeRange(docStartLine, 0, i,
                                                           LineLength(lines, i)),
                                               currentDocLines, GoDoc,
                                               vscodeRange(i, 0, i, Len(line)),
                                               <<line>>)))
                 ELSE GoLoop_DocThroughDeclaration(lines, i + 1, <<>>, -1, pairs)

RECURSIVE GoLoop(_, _, _, _, _)
\* the for loop over the lines; i is the code's line index
GoLoop(lines, i, currentDocLines, docStartLine, pairs) ==
    IF i >= Len(lines) THEN pairs
    ELSE LET line        == lines[i + 1]
             trimmedLine == trim(line)
         IN IF GoCommentMatch(trimmedLine)
            THEN GoLoop(lines, i + 1, Append(currentDocLines, line),
                        IF Len(currentDocLines) = 0 THEN i ELSE docStartLine, pairs)
            ELSE IF GoFuncMatch(trimmedLine) /\ Len(currentDocLines) > 0
                 THEN GoLoop(lines, i + 1, <<>>, -1,
                             Append(pairs,
                                    createPair(vscodeRange(docStartLine, 0, i - 1,
                                                           LineLength(lines, i - 1)),
                                               currentDocLines, GoDoc,
                                               vscodeRange(i, 0, i, Len(line)),
                                               <<line>>)))
                 ELSE GoLoop(lines, i + 1, <<>>, -1, pairs)

GoParseDocCodePairs(lines) == GoLoop(lines, 0, <<>>, -1, <<>>)

----------------------------------------------------------------------------
(* RustParser.parseDocCodePairs                                            *)

\* commentRegex /^\s*\/\/(?:\/|!)\s?(.*)$/ on a trimmed line
RustCommentMatch(trimmedLine) ==
    \/ startsWith(trimmedLine, <<"/", "/", "/">>)
    \/ startsWith(trimmedLine, <<"/", "/", "!">>)

\* trimmedLine.startsWith('#[') && trimmedLine.endsWith(']')
RustAttribute(trimmedLine) ==
    startsWith(trimmedLine, <<"#", "[">>) /\ endsWith(trimmedLine, <<"]">>)

\* the position after one of the words followed by at least one blank, 0 if none is at i
AfterWord(str, i, words) ==
    LET hits == {w \in words :
                    /\ i + Len(w) <= Len(str)
                    /\ SubSeq(str, i, i + Len(w) - 1) = w
                    /\ str[i + Len(w)] \in Whitespace}
    IN IF hits = {} THEN 0
       ELSE LET w == CHOOSE w \in hits : TRUE
            IN SkipChars(str, i + Len(w), Whitespace)

RustQualifiers ==
    {<<"u", "n", "s", "a", "f", "e">>, <<"a", "s", "y", "n", "c">>,
     <<"c", "o", "n", "s", "t">>, <<"e", "x", "t", "e", "r", "n">>}

RECURSIVE AfterQualifiers(_, _)
\* (?:unsafe\s+|async\s+|const\s+|extern\s+(?:"[^"]+"\s+)?)* from position i
AfterQualifiers(str, i) ==
    LET next == AfterWord(str, i, RustQualifiers)
    IN IF next = 0 THEN i
       ELSE IF /\ SubSeq(str, i, i + 5) = <<"e", "x", "t", "e", "r", "n">>
               /\ next <= Len(str) /\ str[next] = "\""
            THEN LET close == next + indexOf(From(str, next + 1), "\"")
                 IN IF close > next + 1 /\ close < Len(str) /\ str[close + 1] \in Whitespace
                    THEN AfterQualifiers(str, SkipChars(str, close + 1, Whitespace))
                    ELSE AfterQualifiers(str, next)
            ELSE AfterQualifiers(str, next)

\* (?:pub(?:\([^)]+\))?\s+)? from position 1
AfterPub(str) ==
    IF ~startsWith(str, <<"p", "u", "b">>) THEN 1
    ELSE IF Len(str) >= 4 /\ str[4] = "("
         THEN LET close == 4 + indexOf(From(str, 5), ")")
              IN IF close > 5 /\ close < Len(str) /\ str[close + 1] \in Whitespace
                 THEN SkipChars(str, close + 1, Whitespace)
                 ELSE 1
         ELSE IF Len(str) >= 4 /\ str[4] \in Whitespace
              THEN SkipChars(str, 4, Whitespace)
              ELSE 1

\* fnRegex on a trimmed line: visibility, qualifiers, then fn, blanks and a name
RustFnMatch(trimmedLine) ==
    LET i == AfterQualifiers(trimmedLine, AfterPub(trimmedLine))
    IN /\ i + 2 <= Len(trimmedLine)
       /\ SubSeq(trimmedLine, i, i + 1) = <<"f", "n">>
       /\ trimmedLine[i + 2] \in Whitespace
       /\ LET name == SkipChars(trimmedLine, i + 2, Whitespace)
          IN name <= Len(trimmedLine) /\ trimmedLine[name] \in WordChars

RECURSIVE RustLoop_KeepsDocs(_, _, _, _, _)
\* RustLoop without the reset on a line that is neither comment, attribute nor function
RustLoop_KeepsDocs(lines, i, currentDocLines, docStartLine, pairs) ==
    IF i >= Len(lines) THEN pairs
    ELSE LET line        == lines[i + 1]
             trimmedLine == trim(line)
         IN IF RustAttribute(trimmedLine) /\ Len(currentDocLines) > 0
            THEN RustLoop_KeepsDocs(lines, i + 1, currentDocLines, docStartLine, pairs)
            ELSE IF RustCommentMatch(trimmedLine)
            THEN RustLoop_KeepsDocs(lines, i + 1, Append(currentDocLines, line),
                          IF Len(currentDocLines) = 0 THEN i ELSE docStartLine, pairs)
            ELSE IF RustFnMatch(trimmedLine) /\ Len(currentDocLines) > 0
                 THEN LET docEndLine == docStartLine + Len(currentDocLines) - 1
                      IN RustLoop_KeepsDocs(lines, i + 1, <<>>, -1,
                                  Append(pairs,
                                         createPair(vscodeRange(docStartLine, 0, docEndLine,
                                                                LineLength(lines, docEndLine)),
                                                    currentDocLines, RustDoc,
                                                    vscodeRange(i, 0, i, Len(line)),
                                                    <<line>>)))
                 ELSE RustLoop_KeepsDocs(lines, i + 1, currentDocLines, docStartLine, pairs)

RECURSIVE RustLoop(_, _, _, _, _)
RustLoop(lines, i, currentDocLines, docStartLine, pairs) ==
    IF i >= Len(lines) THEN pairs
    ELSE LET line        == lines[i + 1]
             trimmedLine == trim(line)
         IN IF RustAttribute(trimmedLine) /\ Len(currentDocLines) > 0
            THEN RustLoop(lines, i + 1, currentDocLines, docStartLine, pairs)
            ELSE IF RustCommentMatch(trimmedLine)
            THEN RustLoop(lines, i + 1, Append(currentDocLines, line),
                          IF Len(currentDocLines) = 0 THEN i ELSE docStartLine, pairs)
            ELSE IF RustFnMatch(trimmedLine) /\ Len(currentDocLines) > 0
                 THEN LET docEndLine == docStartLine + Len(currentDocLines) - 1
                      IN RustLoop(lines, i + 1, <<>>, -1,
                                  Append(pairs,
                                         createPair(vscodeRange(docStartLine, 0, docEndLine,
                                                                LineLength(lines, docEndLine)),
                                                    currentDocLines, RustDoc,
                                                    vscodeRange(i, 0, i, Len(line)),
                                                    <<line>>)))
                 ELSE RustLoop(lines, i + 1, <<>>, -1, pairs)

RustParseDocCodePairs(lines) == RustLoop(lines, 0, <<>>, -1, <<>>)


----------------------------------------------------------------------------
(* JavaParser.parseDocCodePairs                                            *)

DocOpen == <<"/", "*", "*">>

DocClose == <<"*", "/">>

\* [\w\[\]<>\.]
JavaTypeChars == WordChars \cup {"[", "]", "<", ">", "."}

RECURSIVE JavaMethodFrom(_, _, _, _)
\* methodRegex /^(?:[\w\[\]<>\.]+\s+)*[\w\[\]<>\.]+\s+(\w+)\s*\(/ from the token at p:
\* count tokens precede it, each followed by blanks; prevIsWord tells whether the
\* last of them is made of word characters only
JavaMethodFrom(str, p, count, prevIsWord) ==
    LET e == SkipChars(str, p, JavaTypeChars)
    IN IF e = p
       THEN count >= 2 /\ prevIsWord /\ p <= Len(str) /\ str[p] = "("
       ELSE IF e <= Len(str) /\ str[e] \in Whitespace
       THEN JavaMethodFrom(str, SkipChars(str, e, Whitespace), count + 1,
                           SkipChars(str, p, WordChars) = e)
       ELSE /\ count >= 1
            /\ LET w == SkipChars(str, p, WordChars)
               IN w > p /\ w <= Len(str) /\ str[w] = "("

JavaMethodMatch(trimmedLine) == JavaMethodFrom(trimmedLine, 1, 0, FALSE)

\* /\bword\b/.test(str)
HasWord(str, word) ==
    \E i \in 1..(Len(str) - Len(word) + 1) :
        /\ SubSeq(str, i, i + Len(word) - 1) = word
        /\ (i = 1 \/ str[i - 1] \notin WordChars)
        /\ (i + Len(word) > Len(str) \/ str[i + Len(word)] \notin WordChars)

RECURSIVE JavaLoop(_, _, _, _, _, _)
JavaLoop(lines, i, inComment, commentStartLine, currentDocLines, pairs) ==
    IF i >= Len(lines) THEN pairs
    ELSE LET line        == lines[i + 1]
             trimmedLine == trim(line)
         IN IF ~inComment /\ startsWith(trimmedLine, DocOpen)
            THEN JavaLoop(lines, i + 1, ~endsWith(trimmedLine, DocClose), i, <<line>>, pairs)
            ELSE IF inComment
            THEN JavaLoop(lines, i + 1, ~endsWith(trimmedLine, DocClose), commentStartLine,
                          Append(currentDocLines, line), pairs)
            ELSE IF Len(currentDocLines) = 0
            THEN JavaLoop(lines, i + 1, inComment, commentStartLine, currentDocLines, pairs)
            ELSE IF trimmedLine = EmptyStr \/ startsWith(trimmedLine, <<"@">>)
            THEN JavaLoop(lines, i + 1, inComment, commentStartLine, currentDocLines, pairs)
            ELSE IF JavaMethodMatch(trimmedLine)
                    /\ ~HasWord(trimmedLine, <<"c", "l", "a", "s", "s">>)
            THEN LET commentEndLine == commentStartLine + Len(currentDocLines) - 1
                 IN JavaLoop(lines, i + 1, inComment, -1, <<>>,
                             Append(pairs,
                                    createPair(vscodeRange(commentStartLine, 0, commentEndLine,
                                                           LineLength(lines, commentEndLine)),
                                               currentDocLines, JavaDoc,
                                               vscodeRange(i, 0, i, Len(line)),
                                               <<line>>)))
            ELSE IF endsWith(trimmedLine, <<"{">>) \/ endsWith(trimmedLine, <<";">>)
            THEN JavaLoop(lines, i + 1, inComment, -1, <<>>, pairs)
            ELSE JavaLoop(lines, i + 1, inComment, commentStartLine, currentDocLines, pairs)

JavaParseDocCodePairs(lines) == JavaLoop(lines, 0, FALSE, -1, <<>>, <<>>)


----------------------------------------------------------------------------
(* TypeScriptParser.parseDocCodePairs and findCodeBlock                    *)

NoBlock == [found |-> FALSE, end |-> -1]

RECURSIVE StatementEnd(_, _)
\* the while loop of the declarations without braces
StatementEnd(lines, end) ==
    IF end >= Len(lines) - 1 THEN end
    ELSE LET line == trim(lines[end + 1])
         IN IF \/ endsWith(line, <<";">>)
               \/ endsWith(line, <<",">>)
               \/ (/\ ~endsWith(line, <<"=", ">">>)
                   /\ ~endsWith(line, <<"(">>)
                   /\ ~endsWith(line, <<",">>))
            THEN end
            ELSE StatementEnd(lines, end + 1)

RECURSIVE BraceLoop(_, _, _, _, _)
\* the for loop that counts braces from startLine on
BraceLoop(lines, startLine, i, braceDepth, foundFirstBrace) ==
    IF i >= Len(lines)
    THEN IF ~foundFirstBrace THEN [found |-> TRUE, end |-> startLine] ELSE NoBlock
    ELSE LET depth == braceDepth + CountOf(lines[i + 1], "{") - CountOf(lines[i + 1], "}")
             found == foundFirstBrace \/ CountOf(lines[i + 1], "{") > 0
         IN IF found /\ depth = 0
            THEN [found |-> TRUE, end |-> i]
            ELSE BraceLoop(lines, startLine, i + 1, depth, found)

\* null is modelled by found = FALSE; the CodeType it also returns is not used
findCodeBlock(lines, startLine) ==
    LET firstLine == trim(lines[startLine + 1])
    IN IF /\ ~includes(firstLine, <<"{">>)
          /\ (includes(firstLine, <<"=", ">">>) \/ includes(firstLine, <<"=">>))
       THEN [found |-> TRUE, end |-> StatementEnd(lines, startLine)]
       ELSE BraceLoop(lines, startLine, startLine, 0, FALSE)

\* the lines of the file with the code's indices
Indices(lines) == 0..(Len(lines) - 1)

\* the first of the lines hits at or after i, Len(lines) if there is none
FirstLine(lines, i, hits) ==
    IF \E k \in hits : k >= i
    THEN CHOOSE k \in hits : k >= i /\ \A j \in hits : j >= i => k <= j
    ELSE Len(lines)

TsClosesComment(line) == includes(line, DocClose)

\* neither empty nor a decorator
TsIsCode(line) == trim(line) # EmptyStr /\ ~startsWith(trim(line), <<"@">>)

RECURSIVE TsLoop(_, _, _)
TsLoop(lines, i, pairs) ==
    IF i >= Len(lines) THEN pairs
    ELSE IF ~startsWith(trim(lines[i + 1]), DocOpen) THEN TsLoop(lines, i + 1, pairs)
    ELSE LET docStart  == i
             docEnd    == FirstLine(lines, i, {k \in Indices(lines) : TsClosesComment(lines[k + 1])})
             codeStart == IF docEnd < Len(lines)
                          THEN FirstLine(lines, docEnd + 1,
                                         {k \in Indices(lines) : TsIsCode(lines[k + 1])})
                          ELSE Len(lines)
             codeInfo  == IF codeStart < Len(lines)
                          THEN findCodeBlock(lines, codeStart)
                          ELSE NoBlock
         IN IF codeInfo.found
            THEN TsLoop(lines, codeInfo.end + 1,
                        Append(pairs,
                               createPair(vscodeRange(docStart, 0, docEnd,
                                                      LineLength(lines, docEnd)),
                                          SliceLines(lines, docStart, docEnd), JSDoc,
                                          vscodeRange(codeStart, 0, codeInfo.end,
                                                      LineLength(lines, codeInfo.end)),
                                          SliceLines(lines, codeStart, codeInfo.end))))
            ELSE TsLoop(lines, i + 1, pairs)

TsParseDocCodePairs(lines) == TsLoop(lines, 0, <<>>)

----------------------------------------------------------------------------
(* PythonParser.parseDocCodePairs, findBlockEnd and getIndentation         *)

\* /^(async\s+)?def\s+(\w+)\s*\(|^class\s+(\w+)/ on a trimmed line
PyDefMatch(trimmed) ==
    LET async == AfterWord(trimmed, 1, {<<"a", "s", "y", "n", "c">>})
        def   == AfterWord(trimmed, IF async = 0 THEN 1 ELSE async, {<<"d", "e", "f">>})
        class == AfterWord(trimmed, 1, {<<"c", "l", "a", "s", "s">>})
    IN \/ /\ def # 0
          /\ LET after == SkipChars(trimmed, def, WordChars)
                 paren == SkipChars(trimmed, after, Whitespace)
             IN after > def /\ paren <= Len(trimmed) /\ trimmed[paren] = "("
       \/ class # 0 /\ class <= Len(trimmed) /\ trimmed[class] \in WordChars

RECURSIVE SignatureEnd(_, _, _, _, _)
\* the line on which the parentheses opened from line i on are closed, i if none
SignatureEnd(lines, i, j, parenDepth, foundFirstParen) ==
    IF j >= Len(lines) THEN i
    ELSE LET depth == parenDepth + CountOf(lines[j + 1], "(") - CountOf(lines[j + 1], ")")
             found == foundFirstParen \/ CountOf(lines[j + 1], "(") > 0
         IN IF found /\ depth = 0 THEN j
            ELSE SignatureEnd(lines, i, j + 1, depth, found)

\* null is modelled by the empty string
getDocstringQuote(line) ==
    IF startsWith(line, <<"\"", "\"", "\"">>) THEN <<"\"", "\"", "\"">>
    ELSE IF startsWith(line, <<"'", "'", "'">>) THEN <<"'", "'", "'">>
    ELSE IF startsWith(line, <<"\"">>) THEN <<"\"">>
    ELSE IF startsWith(line, <<"'">>) THEN <<"'">>
    ELSE EmptyStr

RECURSIVE getIndentation(_)
getIndentation(line) ==
    IF line = <<>> THEN 0
    ELSE IF Head(line) = " " THEN 1 + getIndentation(Tail(line))
    ELSE IF Head(line) = "\t" THEN 4 + getIndentation(Tail(line))
    ELSE 0

RECURSIVE BlockEndLoop(_, _, _, _)
BlockEndLoop(lines, startIndent, i, lastContentLine) ==
    IF i >= Len(lines) THEN lastContentLine
    ELSE LET trimmed == trim(lines[i + 1])
         IN IF trimmed = EmptyStr \/ startsWith(trimmed, <<"#">>)
            THEN BlockEndLoop(lines, startIndent, i + 1, lastContentLine)
            ELSE IF getIndentation(lines[i + 1]) <= startIndent
            THEN lastContentLine
            ELSE BlockEndLoop(lines, startIndent, i + 1, i)

findBlockEnd(lines, startLine, searchStartLine) ==
    BlockEndLoop(lines, getIndentation(lines[startLine + 1]), searchStartLine + 1,
                 searchStartLine)

RECURSIVE AfterColon(_, _)
\* while (docStart < lines.length && !lines[docStart - 1].trim().endsWith(':')) docStart++
AfterColon(lines, docStart) ==
    IF docStart < Len(lines) /\ ~endsWith(trim(lines[docStart]), <<":">>)
    THEN AfterColon(lines, docStart + 1)
    ELSE docStart

PyNotEmpty(line) == trim(line) # EmptyStr

RECURSIVE PyLoop(_, _, _)
PyLoop(lines, i, pairs) ==
    IF i >= Len(lines) THEN pairs
    ELSE IF ~PyDefMatch(trim(lines[i + 1])) THEN PyLoop(lines, i + 1, pairs)
    ELSE LET codeStart      == i
             isClass        == startsWith(trim(lines[i + 1]), <<"c", "l", "a", "s", "s">>)
             signatureEnd   == IF isClass THEN i ELSE SignatureEnd(lines, i, i, 0, FALSE)
             docStart       == FirstLine(lines, AfterColon(lines, signatureEnd + 1),
                                         {k \in Indices(lines) : PyNotEmpty(lines[k + 1])})
             docLine        == IF docStart < Len(lines) THEN trim(lines[docStart + 1])
                               ELSE EmptyStr
             docstringQuote == getDocstringQuote(docLine)
         IN IF docstringQuote = EmptyStr THEN PyLoop(lines, i + 1, pairs)
            ELSE LET PyCloses(line) == endsWith(trim(line), docstringQuote)
                     docEnd  == IF /\ endsWith(docLine, docstringQuote)
                                   /\ Len(docLine) > Len(docstringQuote) * 2
                                THEN docStart
                                ELSE FirstLine(lines, docStart + 1,
                                               {k \in Indices(lines) : PyCloses(lines[k + 1])})
                     codeEnd == findBlockEnd(lines, codeStart, signatureEnd)
                 IN PyLoop(lines, codeEnd + 1,
                           Append(pairs,
                                  createPair(vscodeRange(docStart, 0, docEnd,
                                                         IF docEnd < Len(lines)
                                                         THEN LineLength(lines, docEnd)
                                                         ELSE 0),
                                             SliceLines(lines, docStart, docEnd), PyDoc,
                                             vscodeRange(codeStart, 0, codeEnd,
                                                         LineLength(lines, codeEnd)),
                                             SliceLines(lines, codeStart, codeEnd))))

PyParseDocCodePairs(lines) == PyLoop(lines, 0, <<>>)

----------------------------------------------------------------------------
(* The pair extractors applied to one file                                 *)

MaxLines == 4

CharLines(ls) == {Chars(l) : l \in ls}

GoLines ==
    CharLines({"// Add adds.", "func Add(a int) int {", "", "}", "func (s *T) Get() int {"})

RustLines ==
    CharLines({"/// Adds.", "#[inline]", "pub fn add(a: i32) -> i32 {", "", "}"})

JavaLines ==
    CharLines({"/** Adds. */", "/**", " */", "@Override", "public int add(int a) {", "}"})

TsLines ==
    CharLines({"/** Adds. */", "@log", "function add(a) {", "function two(a) { if (a) {",
               "}", ""})

PyLines ==
    CharLines({"def add(a):", "def add(", "    a):", "    '''Adds.'''", "    return a", ""})

Languages == {"go", "rust", "java", "typescript", "python"}

LinesOf(lang) ==
    CASE lang = "go" -> GoLines
      [] lang = "rust" -> RustLines
      [] lang = "java" -> JavaLines
      [] lang = "typescript" -> TsLines
      [] lang = "python" -> PyLines

AnalysisIdle ==
    /\ parsedDoc = NoParsedDoc
    /\ codeSignature = NoSignature
    /\ codeContent = <<>>
    /\ driftReasons = <<>>
    /\ driftScore = DblZero

analysisVars == <<parsedDoc, codeSignature, codeContent, driftReasons, driftScore>>

InitExtract ==
    /\ pc = "text"
    /\ language \in Languages
    /\ documentLines \in SeqsUpTo(LinesOf(language), MaxLines)
    /\ docCodePairs = <<>>
    /\ AnalysisIdle
    /\ ScanIdle
    /\ HostIdle

Extract(lang, extracted) ==
    /\ pc = "text"
    /\ language = lang
    /\ docCodePairs' = extracted
    /\ pc' = "extracted"
    /\ UNCHANGED <<language, documentLines, analysisVars, scanVars, hostVars>>

GoExtract == Extract("go", GoParseDocCodePairs(documentLines))

RustExtract == Extract("rust", RustParseDocCodePairs(documentLines))

JavaExtract == Extract("java", JavaParseDocCodePairs(documentLines))

TsExtract == Extract("typescript", TsParseDocCodePairs(documentLines))

PyExtract == Extract("python", PyParseDocCodePairs(documentLines))

NextExtract == GoExtract \/ RustExtract \/ JavaExtract \/ TsExtract \/ PyExtract

SpecExtract == InitExtract /\ [][NextExtract]_vars

----------------------------------------------------------------------------
(* Properties of the extracted pairs                                       *)

Extracted == pc = "extracted"

\* the line of the file with the code's index k
LineAt(k) == documentLines[k + 1]

LineIndices == 0..(Len(documentLines) - 1)

PairIndices == DOMAIN docCodePairs

DocStart(p) == docCodePairs[p].docRange.start.line

DocEnd(p) == docCodePairs[p].docRange.end.line

CodeStart(p) == docCodePairs[p].codeRange.start.line

CodeEnd(p) == docCodePairs[p].codeRange.end.line

\* C14 as stated: in every pair the documentation span ends on a line before
\* the line on which the code span starts.
C14_DocBeforeCode ==
    Extracted => \A p \in PairIndices : DocEnd(p) < CodeStart(p)

\* C14: in every pair of a TypeScript, Go, Rust or Java file the documentation
\* span ends on a line before the line on which the code span starts; in every
\* pair of a Python file the code span starts on the declaration line and the
\* documentation span starts on a later line.
C14_DocPlacement ==
    Extracted =>
        \A p \in PairIndices :
            /\ DocStart(p) <= DocEnd(p)
            /\ CodeStart(p) <= CodeEnd(p)
            /\ IF language = "python"
               THEN CodeStart(p) < DocStart(p)
               ELSE DocEnd(p) < CodeStart(p)

\* a Python pair whose docstring lies inside the span of its code
C14_Witness ==
    /\ Extracted
    /\ language = "python"
    /\ \E p \in PairIndices : CodeStart(p) < DocStart(p) /\ DocEnd(p) <= CodeEnd(p)

\* a pair of a brace language whose documentation ends right before its code
C14_WitnessBefore ==
    /\ Extracted
    /\ language = "typescript"
    /\ \E p \in PairIndices : DocEnd(p) + 1 = CodeStart(p) /\ CodeStart(p) < CodeEnd(p)

\* what line k of the file is to the Go and to the Rust line scanner
GoComment(k) == GoCommentMatch(trim(LineAt(k)))

GoFunc(k) == ~GoComment(k) /\ GoFuncMatch(trim(LineAt(k)))

RustComment(k) == RustCommentMatch(trim(LineAt(k)))

RustAttr(k) == RustAttribute(trim(LineAt(k)))

RustFn(k) == ~RustComment(k) /\ ~RustAttr(k) /\ RustFnMatch(trim(LineAt(k)))

\* the function lines that have documentation: a comment line right above (Go),
\* a comment line above with nothing but attribute lines in between (Rust)
GoDocumented == {i \in LineIndices : GoFunc(i) /\ i >= 1 /\ GoComment(i - 1)}

RustDocumented ==
    {i \in LineIndices :
        /\ RustFn(i)
        /\ \E j \in 0..(i - 1) : RustComment(j) /\ \A k \in (j + 1)..(i - 1) : RustAttr(k)}

CodeStarts == {CodeStart(p) : p \in PairIndices}

C15_WitnessGo ==
    /\ Extracted
    /\ language = "go"
    /\ \E i \in LineIndices :
          /\ GoFunc(i) /\ i >= 2 /\ LineAt(i - 1) = EmptyStr /\ GoComment(i - 2)
          /\ i \notin CodeStarts

\* line k closes a doc comment of a Java or TypeScript file
ClosesComment(k) ==
    IF language = "java" THEN endsWith(trim(LineAt(k)), DocClose)
    ELSE includes(LineAt(k), DocClose)

\* line k lies in a doc comment opened on a line s <= k and not closed before k
InsideComment(k) ==
    \E s \in 0..k :
        /\ startsWith(trim(LineAt(s)), DocOpen)
        /\ \A j \in s..(k - 1) : ~ClosesComment(j)

\* line k is an attribute, annotation or decorator line of the file's language
AttributeLine(k) ==
    IF language = "rust" THEN RustAttr(k)
    ELSE startsWith(trim(LineAt(k)), <<"@">>) /\ ~InsideComment(k)

\* lines a..b are attribute lines, and there is at least one
AttributeRun(a, b) == a <= b /\ \A k \in a..b : AttributeLine(k)

JavaMethod(k) ==
    /\ JavaMethodMatch(trim(LineAt(k)))
    /\ ~HasWord(trim(LineAt(k)), <<"c", "l", "a", "s", "s">>)

\* a doc comment opened on some line s <= j is closed on line j
JavaDocClosedAt(j) ==
    /\ endsWith(trim(LineAt(j)), DocClose)
    /\ \E s \in 0..j :
          /\ startsWith(trim(LineAt(s)), DocOpen)
          /\ \A k \in s..(j - 1) : ~endsWith(trim(LineAt(k)), DocClose)

\* the first doc comment of a TypeScript file is closed on line j
TsFirstDocClosedAt(j) ==
    \E s \in 0..j :
        /\ startsWith(trim(LineAt(s)), DocOpen)
        /\ \A k \in 0..(s - 1) : ~startsWith(trim(LineAt(k)), DocOpen)
        /\ includes(LineAt(j), DocClose)
        /\ \A k \in s..(j - 1) : ~includes(LineAt(k), DocClose)

\* declaration lines that follow a documentation block and a run of attributes
AttributedDeclarations ==
    {i \in LineIndices :
        \E j \in 0..(i - 2) :
            /\ AttributeRun(j + 1, i - 1)
            /\ CASE language = "rust" -> RustComment(j) /\ RustFn(i)
                 [] language = "java" -> JavaDocClosedAt(j) /\ JavaMethod(i)
                 [] language = "typescript" ->
                        /\ TsFirstDocClosedAt(j)
                        /\ TsIsCode(LineAt(i))
                        /\ findCodeBlock(documentLines, i).found
                 [] OTHER -> FALSE}

\* C16: in a Rust, Java or TypeScript file a declaration that follows a
\* documentation block and one or more attribute lines yields a pair, and in
\* every pair with an attribute line between the start of its documentation
\* and its declaration the documentation content is the lines of the
\* documentation span, no line of that span is an attribute line, and the code
\* span starts on a line that is not an attribute line.
C16_AttributesKeepAssociation ==
    (Extracted /\ language \in {"rust", "java", "typescript"}) =>
        /\ AttributedDeclarations \subseteq CodeStarts
        /\ \A p \in PairIndices :
              (\E k \in (DocStart(p) + 1)..(CodeStart(p) - 1) : AttributeLine(k)) =>
                  /\ docCodePairs[p].docContent
                        = SliceLines(documentLines, DocStart(p), DocEnd(p))
                  /\ \A k \in DocStart(p)..DocEnd(p) : ~AttributeLine(k)
                  /\ ~AttributeLine(CodeStart(p))

\* the same for the Java and TypeScript extractors only
C16_JavaAndTypeScript ==
    language \in {"java", "typescript"} => C16_AttributesKeepAssociation

\* a Java or TypeScript pair with an annotation between documentation and code
C16_WitnessJavaAndTypeScript ==
    /\ Extracted
    /\ language = "java"
    /\ \E p \in PairIndices : AttributeRun(DocEnd(p) + 1, CodeStart(p) - 1)
    /\ AttributedDeclarations # {}

RECURSIVE NetBraces(_, _)
\* opening minus closing braces on the lines a..b of the file
NetBraces(a, b) ==
    IF b < a THEN 0
    ELSE NetBraces(a, b - 1) + CountOf(LineAt(b), "{") - CountOf(LineAt(b), "}")

\* the lines at or after s at whose end the braces opened from line s on are closed
ClosingLines(s) == {e \in LineIndices : e >= s /\ NetBraces(s, e) = 0}

BraceDelimited(p) == includes(LineAt(CodeStart(p)), <<"{">>)

\* C17: in a TypeScript or Java file, the code span of a pair whose declaration
\* line opens a brace ends on the first line at whose end the braces opened
\* from the declaration line on are all closed, and there is such a line: a
\* declaration whose braces are not closed before the end of the file yields
\* no pair.
C17_BraceDelimitedSpan ==
    (Extracted /\ language \in {"typescript", "java"}) =>
        \A p \in PairIndices :
            BraceDelimited(p) =>
                /\ ClosingLines(CodeStart(p)) # {}
                /\ CodeEnd(p) \in ClosingLines(CodeStart(p))
                /\ \A e \in ClosingLines(CodeStart(p)) : CodeEnd(p) <= e

\* the same for the TypeScript extractor only
C17_TypeScript == language = "typescript" => C17_BraceDelimitedSpan

\* a TypeScript pair whose code span closes two nested braces, two lines down
C17_WitnessTypeScript ==
    /\ Extracted
    /\ language = "typescript"
    /\ \E p \in PairIndices :
          /\ CountOf(LineAt(CodeStart(p)), "{") = 2
          /\ CodeEnd(p) = CodeStart(p) + 2

----------------------------------------------------------------------------
(* Signature extraction.  Of ParameterInfo the model keeps name and type,  *)
(* of CodeSignature name, parameters and returnType; an absent type,       *)
(* undefined in the code, is the empty string.                             *)

ParameterInfo(name, type) == [name |-> name, type |-> type]

CodeSignature(name, parameters, returnType) ==
    [name |-> name, parameters |-> parameters, returnType |-> returnType]

NoGroups == [ok |-> FALSE, name |-> EmptyStr, params |-> EmptyStr, returns |-> EmptyStr]

RECURSIVE Concat(_)
\* the concatenation of a sequence of sequences
Concat(seqs) == IF seqs = <<>> THEN <<>> ELSE Head(seqs) \o Concat(Tail(seqs))

\* the first position at or after i that holds a character of set (Len + 1 if none)
FirstOf(str, i, set) ==
    IF \E k \in i..Len(str) : str[k] \in set
    THEN CHOOSE k \in i..Len(str) : str[k] \in set /\ \A j \in i..(k - 1) : str[j] \notin set
    ELSE Len(str) + 1

\* str[i] exists and is ch
At(str, i, ch) == i >= 1 /\ i <= Len(str) /\ str[i] = ch

\* the text word stands at position i of str
WordAt(str, i, word) ==
    i >= 1 /\ i + Len(word) - 1 <= Len(str) /\ SubSeq(str, i, i + Len(word) - 1) = word

RECURSIVE SplitLoop(_, _, _, _, _, _, _)
\* the character loop of parseParameters: a comma at depth 0 closes a part
SplitLoop(str, i, depth, current, parts, opening, closing) ==
    IF i > Len(str)
    THEN IF trim(current) # EmptyStr THEN Append(parts, trim(current)) ELSE parts
    ELSE IF str[i] \in opening
    THEN SplitLoop(str, i + 1, depth + 1, Append(current, str[i]), parts, opening, closing)
    ELSE IF str[i] \in closing
    THEN SplitLoop(str, i + 1, depth - 1, Append(current, str[i]), parts, opening, closing)
    ELSE IF str[i] = "," /\ depth = 0
    THEN SplitLoop(str, i + 1, depth, EmptyStr, Append(parts, trim(current)), opening, closing)
    ELSE SplitLoop(str, i + 1, depth, Append(current, str[i]), parts, opening, closing)

\* /^(\w+)(\?)?(?:\s*:\s*([^=]+))?(?:\s*=\s*(.+))?$/, the (\?)? only with optionalMark;
\* the result is the sequence of the one parameter matched, empty for no match
NameTypeDefault(str, optionalMark) ==
    LET afterName == SkipChars(str, 1, WordChars)
        afterMark == IF optionalMark /\ At(str, afterName, "?") THEN afterName + 1
                     ELSE afterName
        colon     == SkipChars(str, afterMark, Whitespace)
        hasType   == At(str, colon, ":")
        equals    == FirstOf(str, colon, {"="})
        name      == SubSeq(str, 1, afterName - 1)
    IN IF afterName = 1 THEN <<>>
       ELSE IF hasType
       THEN IF equals - 1 >= colon + 1 /\ (equals > Len(str) \/ Len(str) > equals)
            THEN <<ParameterInfo(name, trim(SubSeq(str, colon + 1, equals - 1)))>>
            ELSE <<>>
       ELSE IF colon > Len(str) \/ (At(str, colon, "=") /\ Len(str) > colon)
       THEN <<ParameterInfo(name, EmptyStr)>>
       ELSE <<>>

----------------------------------------------------------------------------
(* TypeScriptParser.extractCodeSignature                                   *)

\* TypeScriptParser.parseParameter
TsParseParameter(paramStr) ==
    LET trimmed     == trim(paramStr)
        isRest      == startsWith(trimmed, <<".", ".", ".">>)
        withoutRest == IF isRest THEN From(trimmed, 4) ELSE trimmed
    IN IF trimmed = EmptyStr THEN <<>> ELSE NameTypeDefault(withoutRest, TRUE)

\* TypeScriptParser.parseParameters
TsParseParameters(paramsStr) ==
    IF trim(paramsStr) = EmptyStr THEN <<>>
    ELSE LET parts == SplitLoop(paramsStr, 1, 0, EmptyStr, <<>>,
                                {"<", "(", "[", "{"}, {">", ")", "]", "}"})
         IN Concat([k \in DOMAIN parts |-> TsParseParameter(parts[k])])

\* (\w+)\s*(?:<[^>]*>)?\s*\(([^)]*)\)(?:\s*:\s*([^{=]+))? matched from position n on
TsFuncFrom(str, n) ==
    LET nameEnd == SkipChars(str, n, WordChars)
        generic == SkipChars(str, nameEnd, Whitespace)
        closed  == FirstOf(str, generic + 1, {">"})
        after   == IF At(str, generic, "<") /\ closed <= Len(str) THEN closed + 1 ELSE generic
        open    == SkipChars(str, after, Whitespace)
        close   == FirstOf(str, open + 1, {")"})
        colon   == SkipChars(str, close + 1, Whitespace)
        typeEnd == FirstOf(str, colon + 1, {"{", "="})
    IN IF nameEnd > n /\ At(str, open, "(") /\ close <= Len(str)
       THEN [ok      |-> TRUE,
             name    |-> SubSeq(str, n, nameEnd - 1),
             params  |-> SubSeq(str, open + 1, close - 1),
             returns |-> IF At(str, colon, ":") /\ typeEnd > colon + 1
                         THEN SubSeq(str, colon + 1, typeEnd - 1)
                         ELSE EmptyStr]
       ELSE NoGroups

\* the same with the optional function\s+ in front, tried first
TsFuncAt(str, s) ==
    LET keyword == <<"f", "u", "n", "c", "t", "i", "o", "n">>
        n       == SkipChars(str, s + 8, Whitespace)
    IN IF WordAt(str, s, keyword) /\ n > s + 8 /\ TsFuncFrom(str, n).ok
       THEN TsFuncFrom(str, n)
       ELSE TsFuncFrom(str, s)

\* firstLine.match(/(?:function\s+)?(\w+)\s*(?:<[^>]*>)?\s*\(([^)]*)\)(?:\s*:\s*([^{=]+))?/):
\* the match at the leftmost position that has one
TsFuncMatch(str) ==
    LET starts == {s \in 1..Len(str) : TsFuncAt(str, s).ok}
    IN IF starts = {} THEN NoGroups
       ELSE TsFuncAt(str, CHOOSE s \in starts : \A t \in starts : s <= t)

\* keyword\s+(\w+) matched from position s on
KeywordNameAt(str, s, keyword) ==
    LET n       == SkipChars(str, s + Len(keyword), Whitespace)
        nameEnd == SkipChars(str, n, WordChars)
    IN IF WordAt(str, s, keyword) /\ n > s + Len(keyword) /\ nameEnd > n
       THEN [NoGroups EXCEPT !.ok = TRUE, !.name = SubSeq(str, n, nameEnd - 1)]
       ELSE NoGroups

\* firstLine.match(/class\s+(\w+)/) and its like for interface and type
KeywordName(str, keyword) ==
    LET starts == {s \in 1..Len(str) : KeywordNameAt(str, s, keyword).ok}
    IN IF starts = {} THEN NoGroups
       ELSE KeywordNameAt(str, CHOOSE s \in starts : \A t \in starts : s <= t, keyword)

\* TypeScriptParser.extractCodeSignature of the lines of a code span.  The arrow
\* pattern needs "=>" in the first line; the declarations of this model have none,
\* so arrowMatch is null
TsExtractCodeSignature(content) ==
    LET firstLine      == trim(content[1])
        funcMatch      == TsFuncMatch(firstLine)
        classMatch     == KeywordName(firstLine, <<"c", "l", "a", "s", "s">>)
        interfaceMatch == KeywordName(firstLine, <<"i", "n", "t", "e", "r", "f", "a", "c", "e">>)
        typeMatch      == KeywordName(firstLine, <<"t", "y", "p", "e">>)
        name           == IF typeMatch.ok THEN typeMatch.name
                          ELSE IF interfaceMatch.ok THEN interfaceMatch.name
                          ELSE IF classMatch.ok THEN classMatch.name
                          ELSE IF funcMatch.ok THEN funcMatch.name
                          ELSE <<"u", "n", "k", "n", "o", "w", "n">>
    IN CodeSignature(name,
                     IF funcMatch.ok THEN TsParseParameters(funcMatch.params) ELSE <<>>,
                     IF funcMatch.ok THEN trim(funcMatch.returns) ELSE EmptyStr)

----------------------------------------------------------------------------
(* PythonParser.extractCodeSignature                                       *)

RECURSIVE StripStars(_)
\* trimmed.replace(/^\*+/, '')
StripStars(str) == IF At(str, 1, "*") THEN StripStars(Tail(str)) ELSE str

\* argName.match(/^(\w+)(?:\s*:\s*(.+))?$/) of a *args or **kwargs parameter
PyStarParameter(argName) ==
    LET afterName == SkipChars(argName, 1, WordChars)
        colon     == SkipChars(argName, afterName, Whitespace)
    IN IF afterName = 1 THEN <<>>
       ELSE IF afterName > Len(argName)
       THEN <<ParameterInfo(argName, EmptyStr)>>
       ELSE IF At(argName, colon, ":") /\ Len(argName) > colon
       THEN <<ParameterInfo(SubSeq(argName, 1, afterName - 1), trim(From(argName, colon + 1)))>>
       ELSE <<>>

\* PythonParser.parseParameter
PyParseParameter(paramStr) ==
    LET trimmed == trim(paramStr)
    IN IF trimmed = EmptyStr THEN <<>>
       ELSE IF At(trimmed, 1, "*") /\ PyStarParameter(StripStars(trimmed)) # <<>>
       THEN PyStarParameter(StripStars(trimmed))
       ELSE NameTypeDefault(trimmed, FALSE)

\* PythonParser.parseParameters
PyParseParameters(paramsStr) ==
    IF trim(paramsStr) = EmptyStr THEN <<>>
    ELSE LET parts == SplitLoop(paramsStr, 1, 0, EmptyStr, <<>>,
                                {"[", "(", "{"}, {"]", ")", "}"})
         IN Concat([k \in DOMAIN parts |-> PyParseParameter(parts[k])])

RECURSIVE extractFullSignature(_, _, _, _, _)
\* PythonParser.extractFullSignature: the lines up to the one that closes the
\* parentheses and holds "->" or ":", each followed by a line feed
extractFullSignature(lines, k, signature, parenDepth, foundFirstParen) ==
    IF k > Len(lines) THEN signature
    ELSE LET line  == lines[k]
             depth == parenDepth + CountOf(line, "(") - CountOf(line, ")")
             found == foundFirstParen \/ CountOf(line, "(") > 0
             text  == signature \o line \o <<"\n">>
         IN IF found /\ depth = 0 /\ (includes(line, <<"-", ">">>) \/ includes(line, <<":">>))
            THEN text
            ELSE extractFullSignature(lines, k + 1, text, depth, found)

\* def\s+(\w+)\s*\(([^)]*)\)(?:\s*->\s*([^:]+))? matched from position s on
PyFuncAt(str, s) ==
    LET n       == SkipChars(str, s + 3, Whitespace)
        nameEnd == SkipChars(str, n, WordChars)
        open    == SkipChars(str, nameEnd, Whitespace)
        close   == FirstOf(str, open + 1, {")"})
        arrow   == SkipChars(str, close + 1, Whitespace)
        typeEnd == FirstOf(str, arrow + 2, {":"})
    IN IF /\ WordAt(str, s, <<"d", "e", "f">>)
          /\ n > s + 3
          /\ nameEnd > n
          /\ At(str, open, "(")
          /\ close <= Len(str)
       THEN [ok      |-> TRUE,
             name    |-> SubSeq(str, n, nameEnd - 1),
             params  |-> SubSeq(str, open + 1, close - 1),
             returns |-> IF WordAt(str, arrow, <<"-", ">">>) /\ typeEnd > arrow + 2
                         THEN SubSeq(str, arrow + 2, typeEnd - 1)
                         ELSE EmptyStr]
       ELSE NoGroups

\* fullSignature.match(/(?:async\s+)?def\s+(\w+)\s*\(([^)]*)\)(?:\s*->\s*([^:]+))?/s):
\* the groups of the match at the leftmost def that has one
PyFuncMatch(str) ==
    LET starts == {s \in 1..Len(str) : PyFuncAt(str, s).ok}
    IN IF starts = {} THEN NoGroups
       ELSE PyFuncAt(str, CHOOSE s \in starts : \A t \in starts : s <= t)

\* PythonParser.extractCodeSignature of the lines of a code span
PyExtractCodeSignature(content) ==
    LET firstLine  == trim(content[1])
        classMatch == KeywordNameAt(firstLine, 1, <<"c", "l", "a", "s", "s">>)
        funcMatch  == PyFuncMatch(extractFullSignature(content, 1, EmptyStr, 0, FALSE))
    IN IF classMatch.ok THEN CodeSignature(classMatch.name, <<>>, EmptyStr)
       ELSE IF funcMatch.ok
       THEN CodeSignature(funcMatch.name, PyParseParameters(funcMatch.params),
                          trim(funcMatch.returns))
       ELSE CodeSignature(<<"u", "n", "k", "n", "o", "w", "n">>, <<>>, EmptyStr)

----------------------------------------------------------------------------
(* GoParser.extractCodeSignature and parseGoParams                         *)

RECURSIVE split(_, _)
\* String.prototype.split on one character
split(str, ch) ==
    LET k == FirstOf(str, 1, {ch})
    IN IF k > Len(str) THEN <<str>>
       ELSE <<SubSeq(str, 1, k - 1)>> \o split(From(str, k + 1), ch)

RECURSIVE GoParamsLoop(_, _, _, _)
\* the loop of parseGoParams over the comma-separated parts
GoParamsLoop(parts, k, pendingNames, params) ==
    IF k > Len(parts) THEN params
    ELSE LET trimmed    == trim(parts[k])
             spaceIndex == lastIndexOf(trimmed, " ")
         IN IF spaceIndex # 0
            THEN LET possibleName == trim(SubSeq(trimmed, 1, spaceIndex - 1))
                     type         == trim(From(trimmed, spaceIndex + 1))
                     names        == Append(pendingNames, possibleName)
                 IN GoParamsLoop(parts, k + 1, <<>>,
                                 params \o [n \in DOMAIN names |-> ParameterInfo(names[n], type)])
            ELSE GoParamsLoop(parts, k + 1, Append(pendingNames, trimmed), params)

parseGoParams(paramsStr) == GoParamsLoop(split(paramsStr, ","), 1, <<>>, <<>>)

\* returnPart: funcMatch[3].replace('{', '').trim()
RemoveFirst(str, ch) ==
    LET k == FirstOf(str, 1, {ch})
    IN IF k > Len(str) THEN str ELSE SubSeq(str, 1, k - 1) \o From(str, k + 1)

\* content.trim().match(/^func\s+(\w+)\s*\((.*?)\)(?:\s*(.*))?\s*\{?$/) for one line
GoFuncGroups(str) ==
    LET n       == SkipChars(str, 5, Whitespace)
        nameEnd == SkipChars(str, n, WordChars)
        open    == SkipChars(str, nameEnd, Whitespace)
        close   == FirstOf(str, open + 1, {")"})
        rest    == SkipChars(str, close + 1, Whitespace)
    IN IF /\ WordAt(str, 1, <<"f", "u", "n", "c">>)
          /\ n > 5
          /\ nameEnd > n
          /\ At(str, open, "(")
          /\ close <= Len(str)
       THEN [ok      |-> TRUE,
             name    |-> SubSeq(str, n, nameEnd - 1),
             params  |-> SubSeq(str, open + 1, close - 1),
             returns |-> From(str, rest)]
       ELSE NoGroups

\* GoParser.extractCodeSignature of a declaration line
GoExtractCodeSignature(content) ==
    LET funcMatch == GoFuncGroups(trim(content))
    IN IF funcMatch.ok
       THEN CodeSignature(funcMatch.name,
                          IF funcMatch.params # EmptyStr THEN parseGoParams(funcMatch.params)
                          ELSE <<>>,
                          trim(RemoveFirst(funcMatch.returns, "{")))
       ELSE CodeSignature(EmptyStr, <<>>, EmptyStr)

----------------------------------------------------------------------------
(* The signature extractors applied to one declaration                     *)

MaxSignatureParams == 2

MaxGroups == 2

RECURSIVE Join(_, _)
\* Array.prototype.join
Join(strs, separator) ==
    IF strs = <<>> THEN EmptyStr
    ELSE IF Len(strs) = 1 THEN strs[1]
    ELSE strs[1] \o separator \o Join(Tail(strs), separator)

Declaration(prefix, params, returns, tail) ==
    [prefix |-> Chars(prefix), params |-> params, returns |-> Chars(returns),
     tail |-> Chars(tail)]

TsParamTexts == CharLines({"a: number", "b", "c?: string", "...rest: number[]"})

TsDeclarations ==
    {Declaration(prefix, params, returns, " {") :
        prefix \in {"function add", "async function add", "export function add"},
        params \in SeqsUpTo(TsParamTexts, MaxSignatureParams),
        returns \in {"", ": number"}}

PyParamTexts == CharLines({"self", "b: int", "c=1", "*args"})

PyDeclarations ==
    {Declaration(prefix, params, returns, ":") :
        prefix \in {"def add", "async def add"},
        params \in SeqsUpTo(PyParamTexts, MaxSignatureParams),
        returns \in {"", " -> int"}}

\* the declaration on one line, and with one parameter per line
SingleLine(d) ==
    <<d.prefix \o <<"(">> \o Join(d.params, <<",", " ">>) \o <<")">> \o d.returns \o d.tail>>

MultiLine(d) ==
    <<d.prefix \o <<"(">>>>
    \o [k \in DOMAIN d.params |->
            Chars("    ") \o d.params[k] \o (IF k < Len(d.params) THEN <<",">> ELSE EmptyStr)]
    \o <<<<")">> \o d.returns \o d.tail>>

\* a Go parameter list: groups of names, each closed by one type
GoGroups ==
    {[names |-> names, type |-> Chars(type)] :
        names \in {<<Chars("x")>>, <<Chars("x"), Chars("y")>>, <<Chars("z")>>},
        type \in {"int", "string", "chan int"}}

GoGroupLists == SeqsUpTo(GoGroups, MaxGroups)

GoGroupText(group) == Join(group.names, <<",", " ">>) \o <<" ">> \o group.type

GoDeclaration(groups) ==
    Chars("func Add(")
    \o Join([k \in DOMAIN groups |-> GoGroupText(groups[k])], <<",", " ">>)
    \o Chars(") int {")

\* one parameter per name, in order, with the type of its group
GroupParameters(groups) ==
    Concat([k \in DOMAIN groups |->
               [n \in DOMAIN groups[k].names |->
                   ParameterInfo(groups[k].names[n], groups[k].type)]])

SimpleTypes(groups) == \A k \in DOMAIN groups : ~includes(groups[k].type, <<" ">>)

InitSignature ==
    /\ pc = "declaration"
    /\ language \in {"typescript", "python", "go"}
    /\ documentLines \in
          CASE language = "typescript" ->
                   {SingleLine(d) : d \in TsDeclarations} \cup {MultiLine(d) : d \in TsDeclarations}
            [] language = "python" ->
                   {SingleLine(d) : d \in PyDeclarations} \cup {MultiLine(d) : d \in PyDeclarations}
            [] language = "go" -> {<<GoDeclaration(g)>> : g \in GoGroupLists}
    /\ docCodePairs = <<>>
    /\ parsedDoc = NoParsedDoc
    /\ codeSignature = NoSignature
    /\ codeContent = <<>>
    /\ driftReasons = <<>>
    /\ driftScore = DblZero
    /\ ScanIdle
    /\ HostIdle

ExtractSignature(lang, signature) ==
    /\ pc = "declaration"
    /\ language = lang
    /\ codeSignature' = signature
    /\ pc' = "signature"
    /\ UNCHANGED <<parsedDoc, codeContent, driftReasons, driftScore, extractVars, scanVars, hostVars>>

TsExtractSignature == ExtractSignature("typescript", TsExtractCodeSignature(documentLines))

PyExtractSignature == ExtractSignature("python", PyExtractCodeSignature(documentLines))

GoExtractSignature == ExtractSignature("go", GoExtractCodeSignature(documentLines[1]))

NextSignature == TsExtractSignature \/ PyExtractSignature \/ GoExtractSignature

SpecSignature == InitSignature /\ [][NextSignature]_vars

----------------------------------------------------------------------------
(* Properties of the extracted signatures                                  *)

SignatureExtracted == pc = "signature"

\* the signature the extractor of the language gives for the lines
SignatureOf(lang, content) ==
    IF lang = "typescript" THEN TsExtractCodeSignature(content)
    ELSE PyExtractCodeSignature(content)

DeclarationsOf(lang) == IF lang = "typescript" THEN TsDeclarations ELSE PyDeclarations

\* C18: the signature extracted from a TypeScript or Python declaration written
\* with one parameter per line is the signature extracted from the same
\* declaration written on one line.
C18_MultiLineSignature ==
    (SignatureExtracted /\ language \in {"typescript", "python"}) =>
        \A d \in DeclarationsOf(language) :
            documentLines = MultiLine(d) =>
                codeSignature = SignatureOf(language, SingleLine(d))

\* the same for the Python extractor only
C18_Python == language = "python" => C18_MultiLineSignature

\* a Python declaration over four lines with two parameters and a return type
C18_WitnessPython ==
    /\ SignatureExtracted
    /\ language = "python"
    /\ Len(documentLines) = 4
    /\ Len(codeSignature.parameters) = 2
    /\ codeSignature.returnType = Chars("int")

\* C19: the parameters extracted from a Go parameter list of groups of names,
\* each group followed by one type, are one parameter per name, in the order
\* of the declaration, each with the type that closes its group.
C19_GroupedParameters ==
    (SignatureExtracted /\ language = "go") =>
        \A g \in GoGroupLists :
            documentLines = <<GoDeclaration(g)>> =>
                codeSignature.parameters = GroupParameters(g)

\* the same for types written without a blank
C19_SimpleTypes ==
    (SignatureExtracted /\ language = "go") =>
        \A g \in GoGroupLists :
            (documentLines = <<GoDeclaration(g)>> /\ SimpleTypes(g)) =>
                /\ codeSignature.parameters = GroupParameters(g)
                /\ codeSignature.name = Chars("Add")
                /\ codeSignature.returnType = Chars("int")

\* 'x, y int, z string' gives x:int, y:int, z:string
C19_WitnessSimpleTypes ==
    /\ SignatureExtracted
    /\ documentLines = <<Chars("func Add(x, y int, z string) int {")>>
    /\ codeSignature.parameters
          = <<ParameterInfo(Chars("x"), Chars("int")), ParameterInfo(Chars("y"), Chars("int")),
              ParameterInfo(Chars("z"), Chars("string"))>>

----------------------------------------------------------------------------
(* BaseParser.parsePyDocStyle.  Of ParsedDoc the model keeps the           *)
(* description, the name and type of every params entry, and whether       *)
(* returns is set and its type; tags and throws are left out.  The         *)
(* docstring is one text with "\n" between its lines, as in the code.      *)

DocParam(name, type) == [name |-> name, type |-> type]

NoReturn == [present |-> FALSE, type |-> EmptyStr]

Returning(type) == [present |-> TRUE, type |-> type]

\* result.params.find(p => p.name === name)
HasParam(params, name) == \E k \in DOMAIN params : params[k].name = name

\* the last position of str that holds a character of set, 0 if none
LastOf(str, set) ==
    IF \E k \in 1..Len(str) : str[k] \in set
    THEN CHOOSE k \in 1..Len(str) : str[k] \in set /\ \A j \in (k + 1)..Len(str) : str[j] \notin set
    ELSE 0

\* the quote characters that cleanContent removes; the code also removes the
\* backquote, which no TLA+ string can hold and no docstring here contains
QuoteChars == {"'", "\""}

\* the two replace calls of cleanContent on one line: three quote characters
\* at the start of the line are removed, then three at its end
StripQuotes(line) ==
    LET opened == IF Len(line) >= 3 /\ \A k \in 1..3 : line[k] \in QuoteChars
                  THEN From(line, 4) ELSE line
    IN IF Len(opened) >= 3 /\ \A k \in (Len(opened) - 2)..Len(opened) : opened[k] \in QuoteChars
       THEN SubSeq(opened, 1, Len(opened) - 3)
       ELSE opened

\* cleanContent of the docstring with the given lines
CleanContent(lines) ==
    trim(Join([k \in DOMAIN lines |-> StripQuotes(lines[k])], <<"\n">>))

\* cleanContent.split(/\n\s*\n/)[0].trim()
FirstSection(text) ==
    LET breaks == {n \in 1..Len(text) :
                      /\ text[n] = "\n"
                      /\ \E m \in (n + 1)..(SkipChars(text, n + 1, Whitespace) - 1) :
                            text[m] = "\n"}
    IN IF breaks = {} THEN trim(text)
       ELSE trim(SubSeq(text, 1, (CHOOSE n \in breaks : \A m \in breaks : n <= m) - 1))

\* the text after the word at the start of str and at least one blank, of a
\* line that starts with that word (empty sequence of results if it does not)
AfterTag(str, tag) ==
    LET rest == SkipChars(str, Len(tag) + 1, Whitespace)
    IN IF startsWith(str, tag) /\ rest > Len(tag) + 1 THEN <<From(str, rest)>> ELSE <<>>

\* the text after the tag and the blanks that follow it, of a line that starts
\* with the tag
AfterLabel(str, tag) ==
    IF startsWith(str, tag) THEN <<From(str, SkipChars(str, Len(tag) + 1, Whitespace))>>
    ELSE <<>>

RECURSIVE SphinxLoop(_, _, _, _)
\* the loop of parseSphinxStyle over the lines
SphinxLoop(lines, k, params, returns) ==
    IF k > Len(lines) THEN [params |-> params, returns |-> returns]
    ELSE LET trimmed   == trim(lines[k])
             param     == AfterTag(trimmed, Chars(":param"))
             type      == AfterTag(trimmed, Chars(":type"))
             return    == IF AfterLabel(trimmed, Chars(":return:")) # <<>>
                          THEN AfterLabel(trimmed, Chars(":return:"))
                          ELSE AfterLabel(trimmed, Chars(":returns:"))
             rtype     == AfterLabel(trimmed, Chars(":rtype:"))
         IN IF param # <<>> /\ FirstOf(param[1], 2, {":"}) <= Len(param[1])
            THEN \* /^:param\s+(.+?):\s*(.*)$/
                 LET paramSig == trim(SubSeq(param[1], 1, FirstOf(param[1], 2, {":"}) - 1))
                     cut      == LastOf(paramSig, Whitespace)
                     name     == From(paramSig, cut + 1)
                     ptype    == normalizeWhitespace(SubSeq(paramSig, 1, cut))
                 IN IF name # EmptyStr /\ ~HasParam(params, name)
                    THEN SphinxLoop(lines, k + 1, Append(params, DocParam(name, ptype)), returns)
                    ELSE SphinxLoop(lines, k + 1, params, returns)
            ELSE IF /\ type # <<>>
                    /\ SkipChars(type[1], 1, WordChars) > 1
                    /\ At(type[1], SkipChars(type[1], 1, WordChars), ":")
            THEN \* /^:type\s+(\w+):\s*(.*)$/
                 LET colon == SkipChars(type[1], 1, WordChars)
                     name  == SubSeq(type[1], 1, colon - 1)
                     given == From(type[1], SkipChars(type[1], colon + 1, Whitespace))
                 IN SphinxLoop(lines, k + 1,
                               IF ~HasParam(params, name) THEN params
                               ELSE
                               [n \in DOMAIN params |->
                                   IF n = (CHOOSE m \in DOMAIN params :
                                              /\ params[m].name = name
                                              /\ \A j \in 1..(m - 1) : params[j].name # name)
                                   THEN DocParam(name, given) ELSE params[n]],
                               returns)
            ELSE IF return # <<>>
            THEN SphinxLoop(lines, k + 1, params,
                            IF returns.present THEN returns ELSE Returning(EmptyStr))
            ELSE IF rtype # <<>>
            THEN SphinxLoop(lines, k + 1, params, Returning(rtype[1]))
            ELSE SphinxLoop(lines, k + 1, params, returns)

\* typeInfo.replace(/,\s*optional/i, '').trim()
CleanType(typeInfo) ==
    LET lower  == toLowerCase(typeInfo)
        word   == Chars("optional")
        starts == {s \in 1..Len(typeInfo) :
                      /\ typeInfo[s] = ","
                      /\ WordAt(lower, SkipChars(lower, s + 1, Whitespace), word)}
    IN IF starts = {} THEN trim(typeInfo)
       ELSE LET s == CHOOSE s \in starts : \A t \in starts : s <= t
            IN trim(SubSeq(typeInfo, 1, s - 1)
                    \o From(typeInfo, SkipChars(lower, s + 1, Whitespace) + Len(word)))

RECURSIVE NumPyLoop(_, _, _, _, _)
\* the loop of parseNumPyStyle over the lines; i is the code's index
NumPyLoop(lines, i, currentSection, params, returns) ==
    IF i >= Len(lines) THEN [params |-> params, returns |-> returns]
    ELSE LET trimmed == trim(lines[i + 1])
             colon   == SkipChars(trimmed, SkipChars(trimmed, 1, WordChars), Whitespace)
         IN IF i + 1 < Len(lines) /\ startsWith(trim(lines[i + 2]), <<"-", "-", "-">>)
            THEN NumPyLoop(lines, i + 2, toLowerCase(trimmed), params, returns)
            ELSE IF currentSection = Chars("parameters")
            THEN \* /^(\w+)\s*:\s*(.+)$/
                 IF /\ SkipChars(trimmed, 1, WordChars) > 1
                    /\ At(trimmed, colon, ":")
                    /\ Len(trimmed) > colon
                 THEN LET name     == SubSeq(trimmed, 1, SkipChars(trimmed, 1, WordChars) - 1)
                          typeInfo == From(trimmed, SkipChars(trimmed, colon + 1, Whitespace))
                      IN IF ~HasParam(params, name)
                         THEN NumPyLoop(lines, i + 1, currentSection,
                                        Append(params, DocParam(name, CleanType(typeInfo))),
                                        returns)
                         ELSE NumPyLoop(lines, i + 1, currentSection, params, returns)
                 ELSE NumPyLoop(lines, i + 1, currentSection, params, returns)
            ELSE IF currentSection = Chars("returns") /\ trimmed # EmptyStr /\ ~returns.present
            THEN \* /^(?:(\w+)\s*:\s*)?(.+)$/
                 NumPyLoop(lines, i + 1, currentSection, params,
                           Returning(IF ~includes(trimmed, <<":">>) THEN trimmed
                                     ELSE IF /\ SkipChars(trimmed, 1, WordChars) > 1
                                             /\ At(trimmed, colon, ":")
                                             /\ Len(trimmed) > colon
                                     THEN From(trimmed, SkipChars(trimmed, colon + 1, Whitespace))
                                     ELSE trimmed))
            ELSE NumPyLoop(lines, i + 1, currentSection, params, returns)

\* a line start lies in the blanks text[a..c - 1]: one of them, not the last, is "\n"
HasLineStart(text, a, c) == \E n \in a..(c - 2) : text[n] = "\n"

\* the position of the first character of text at or after i that is no blank
NextText(text, i) == SkipChars(text, i, Whitespace)

RECURSIVE SectionEnd(_, _)
\* (?:\s+\w+.*\n?)+ from a word at position c on: the end of the last line taken
SectionEnd(text, c) ==
    LET lineEnd == FirstOf(text, c, {"\n"})
        next    == NextText(text, lineEnd)
    IN IF lineEnd <= Len(text) /\ next <= Len(text) /\ text[next] \in WordChars
       THEN SectionEnd(text, next)
       ELSE lineEnd - 1

ArgsHeaders == {Chars("args:"), Chars("parameters:"), Chars("params:")}

\* /(?:Args|Parameters|Params):\s*\n((?:\s+\w+.*\n?)+)/gi matched from position p on:
\* the position after the header and the end of the match, or no match
ArgsAt(text, p) ==
    LET lower  == toLowerCase(text)
        heads  == {h \in ArgsHeaders : WordAt(lower, p, h)}
        after  == p + Len(CHOOSE h \in heads : TRUE)
        first  == NextText(text, after)
    IN IF heads # {} /\ first <= Len(text) /\ text[first] \in WordChars
          /\ HasLineStart(text, after, first)
       THEN [ok |-> TRUE, from |-> after, to |-> SectionEnd(text, first)]
       ELSE [ok |-> FALSE, from |-> 0, to |-> 0]

RECURSIVE EntryLoop(_, _, _, _)
\* paramPattern.exec over the matched section, from position from on:
\* /^\s+(\w+)(?:\s*\(([^)]+)\))?:\s*(.*)$/gm
EntryLoop(text, from, to, params) ==
    LET words == {c \in (from + 1)..to :
                     /\ text[c] \in WordChars
                     /\ text[c - 1] \in Whitespace
                     /\ \E a \in from..(c - 1) :
                           /\ \A k \in a..(c - 1) : text[k] \in Whitespace
                           /\ HasLineStart(text, a, c)}
    IN IF words = {} THEN params
       ELSE LET c       == CHOOSE c \in words : \A d \in words : c <= d
                nameEnd == SkipChars(text, c, WordChars)
                open    == NextText(text, nameEnd)
                close   == FirstOf(text, open + 1, {")"})
                typed   == /\ At(text, open, "(")
                           /\ close <= to
                           /\ close > open + 1
                           /\ At(text, close + 1, ":")
                colon   == IF typed THEN close + 1 ELSE nameEnd
                rest    == NextText(text, colon + 1)
                lineEnd == FirstOf(text, IF rest <= to THEN rest ELSE colon + 1, {"\n"})
            IN IF colon <= to /\ text[colon] = ":"
               THEN EntryLoop(text, IF lineEnd <= to THEN lineEnd ELSE to, to,
                              Append(params,
                                     DocParam(SubSeq(text, c, nameEnd - 1),
                                              IF typed THEN SubSeq(text, open + 1, close - 1)
                                              ELSE EmptyStr)))
               ELSE EntryLoop(text, c, to, params)

\* the entries of the first Args, Parameters or Params section of the text
GoogleParams(text) ==
    LET starts == {p \in 1..Len(text) : ArgsAt(text, p).ok}
    IN IF starts = {} THEN <<>>
       ELSE LET p == CHOOSE p \in starts : \A q \in starts : p <= q
            IN EntryLoop(text, ArgsAt(text, p).from, ArgsAt(text, p).to, <<>>)

\* /Returns:\s*\n?\s*(?:(\w+):\s*)?(.+)/i: result.returns when the pattern matches
GoogleReturns(text, returns) ==
    LET lower  == toLowerCase(text)
        starts == {p \in 1..Len(text) :
                      /\ WordAt(lower, p, Chars("returns:"))
                      /\ NextText(text, p + 8) <= Len(text)}
    IN IF starts = {} THEN returns
       ELSE LET p       == CHOOSE p \in starts : \A q \in starts : p <= q
                word    == NextText(text, p + 8)
                wordEnd == SkipChars(text, word, WordChars)
            IN IF /\ wordEnd > word
                  /\ At(text, wordEnd, ":")
                  /\ NextText(text, wordEnd + 1) <= Len(text)
               THEN Returning(SubSeq(text, word, wordEnd - 1))
               ELSE Returning(EmptyStr)

\* BaseParser.parsePyDocStyle of the docstring with the given lines
parsePyDocStyle(content) ==
    LET cleanContent == CleanContent(content)
        lines        == split(cleanContent, "\n")
        sphinx       == SphinxLoop(lines, 1, <<>>, NoReturn)
        numpy        == NumPyLoop(lines, 0, EmptyStr, sphinx.params, sphinx.returns)
    IN [description |-> FirstSection(cleanContent),
        params      |-> numpy.params \o GoogleParams(cleanContent),
        returns     |-> GoogleReturns(cleanContent, numpy.returns)]

----------------------------------------------------------------------------
(* SpecPyDoc: parsePyDocStyle applied to every docstring of at most        *)
(* MaxDocLines lines drawn from DocstringLines.                            *)

MaxDocLines == 4

DocstringLines ==
    {"'''Adds.", ":param x: first", ":param int y: second", ":rtype: int",
     "Args:", "    x: second", "    y (int): other",
     "Parameters", "----------", "x : int", ""}

InitPyDoc ==
    /\ pc = "docstring"
    /\ language = "python"
    /\ documentLines \in SeqsUpTo(CharLines(DocstringLines), MaxDocLines)
    /\ docCodePairs = <<>>
    /\ AnalysisIdle
    /\ ScanIdle
    /\ HostIdle

\* BaseParser.parseDocumentation(content, DocType.PyDoc)
ParseDocumentation ==
    /\ pc = "docstring"
    /\ parsedDoc' = parsePyDocStyle(documentLines)
    /\ pc' = "documented"
    /\ UNCHANGED <<codeSignature, codeContent, driftReasons, driftScore, extractVars, scanVars, hostVars>>

NextPyDoc == ParseDocumentation

SpecPyDoc == InitPyDoc /\ [][NextPyDoc]_vars

Documented == pc = "documented"

\* the docstring with the given lines
Docstring(ls) == [k \in DOMAIN ls |-> Chars(ls[k])]

\* the docstring has the line s
HasDocLine(s) == \E k \in DOMAIN documentLines : documentLines[k] = Chars(s)

\* the returned parameter entries with the given name
EntriesNamed(name) == {k \in DOMAIN parsedDoc.params : parsedDoc.params[k].name = name}

\* no line occurs twice in the docstring, so that each notation documents a
\* parameter at most once
OncePerNotation ==
    \A i, j \in DOMAIN documentLines : documentLines[i] = documentLines[j] => i = j

\* C20: parseDocumentation never returns two parameter entries with the same
\* name, whatever notations (Sphinx :param, NumPy Parameters section, Google
\* Args: section) the docstring documents a parameter in.
C20_NoDuplicateParameters ==
    (Documented /\ OncePerNotation) =>
        \A i, j \in DOMAIN parsedDoc.params :
            parsedDoc.params[i].name = parsedDoc.params[j].name => i = j

\* C20, the part that holds: without an Args:, Parameters: or Params: section
\* the Sphinx and NumPy notations are merged with the first occurrence kept.
C20_SphinxAndNumPy ==
    (Documented /\ ~HasDocLine("Args:")) =>
        \A i, j \in DOMAIN parsedDoc.params :
            parsedDoc.params[i].name = parsedDoc.params[j].name => i = j

\* x is documented by :param and in a NumPy section and is returned once,
\* with the (empty) type of the :param line
C20_WitnessSphinxAndNumPy ==
    /\ Documented
    /\ documentLines = Docstring(<<":param x: first", "Parameters", "----------", "x : int">>)
    /\ parsedDoc.params = <<DocParam(Chars("x"), EmptyStr)>>

----------------------------------------------------------------------------
(* BaseParser.parseJSDocStyle, parseGoDocStyle and parseDocumentation, with *)
(* the same parts of ParsedDoc as parsePyDocStyle above                    *)

\* .replace(/^\/\*\*?/gm, '') on one line
JsStripOpen(line) ==
    IF startsWith(line, <<"/", "*", "*">>) THEN From(line, 4)
    ELSE IF startsWith(line, <<"/", "*">>) THEN From(line, 3)
    ELSE line

\* .replace(/\*\/$/gm, '') on one line
JsStripClose(line) ==
    IF endsWith(line, <<"*", "/">>) THEN SubSeq(line, 1, Len(line) - 2) ELSE line

\* position i of text starts a line
LineStart(text, i) == i = 1 \/ text[i - 1] = "\n"

RECURSIVE RemoveStars(_, _, _)
\* .replace(/^\s*\*\s?/gm, ''): from each line start, the blanks, the star
\* after them and one blank after the star are removed
RemoveStars(text, i, acc) ==
    IF i > Len(text) THEN acc
    ELSE LET star == SkipChars(text, i, Whitespace)
         IN IF LineStart(text, i) /\ At(text, star, "*")
            THEN RemoveStars(text,
                             IF star < Len(text) /\ text[star + 1] \in Whitespace
                             THEN star + 2 ELSE star + 1,
                             acc)
            ELSE RemoveStars(text, i + 1, Append(acc, text[i]))

\* /@param\s+(?:\{([^}]*)\}\s+)?(\w+)\s*(.*)/ matched at position p
JsParamAt(str, p) ==
    LET first   == SkipChars(str, p + 6, Whitespace)
        close   == FirstOf(str, first + 1, {"}"})
        second  == SkipChars(str, close + 1, Whitespace)
        typed   == /\ At(str, first, "{")
                   /\ close <= Len(str)
                   /\ second > close + 1
                   /\ SkipChars(str, second, WordChars) > second
        name    == IF typed THEN second ELSE first
        nameEnd == SkipChars(str, name, WordChars)
    IN IF WordAt(str, p, Chars("@param")) /\ first > p + 6 /\ nameEnd > name
       THEN [ok |-> TRUE, name |-> SubSeq(str, name, nameEnd - 1),
             type |-> IF typed THEN SubSeq(str, first + 1, close - 1) ELSE EmptyStr]
       ELSE [ok |-> FALSE, name |-> EmptyStr, type |-> EmptyStr]

\* the leftmost match of the @param pattern in str
JsParamMatch(str) ==
    LET starts == {p \in 1..Len(str) : JsParamAt(str, p).ok}
    IN IF starts = {} THEN JsParamAt(str, 0)
       ELSE JsParamAt(str, CHOOSE p \in starts : \A q \in starts : p <= q)

\* /@returns?\s+(?:\{([^}]*)\}\s*)?(.*)/ matched at position p
JsReturnAt(str, p) ==
    LET after == IF At(str, p + 7, "s") THEN p + 8 ELSE p + 7
        first == SkipChars(str, after, Whitespace)
        close == FirstOf(str, first + 1, {"}"})
    IN IF WordAt(str, p, Chars("@return")) /\ first > after
       THEN [ok |-> TRUE,
             type |-> IF At(str, first, "{") /\ close <= Len(str)
                      THEN SubSeq(str, first + 1, close - 1) ELSE EmptyStr]
       ELSE [ok |-> FALSE, type |-> EmptyStr]

\* the leftmost match of the @returns pattern in str
JsReturnMatch(str) ==
    LET starts == {p \in 1..Len(str) : JsReturnAt(str, p).ok}
    IN IF starts = {} THEN JsReturnAt(str, 0)
       ELSE JsReturnAt(str, CHOOSE p \in starts : \A q \in starts : p <= q)

\* one of the other tag patterns matches: /@(\w+)\s*(.*)/ matches whenever
\* @throws, @exception, @deprecated, @since or @example does
JsTagMatch(str) == \E p \in 1..(Len(str) - 1) : str[p] = "@" /\ str[p + 1] \in WordChars

RECURSIVE JsDocLoop(_, _, _, _, _)
\* the loop of parseJSDocStyle over the lines
JsDocLoop(lines, k, params, returns, descriptionLines) ==
    IF k > Len(lines)
    THEN [description |-> trim(Join(descriptionLines, <<" ">>)),
          params |-> params, returns |-> returns]
    ELSE LET trimmed == trim(lines[k])
         IN IF JsParamMatch(trimmed).ok
            THEN JsDocLoop(lines, k + 1,
                           Append(params, DocParam(JsParamMatch(trimmed).name,
                                                   JsParamMatch(trimmed).type)),
                           returns, descriptionLines)
            ELSE IF JsReturnMatch(trimmed).ok
            THEN JsDocLoop(lines, k + 1, params, Returning(JsReturnMatch(trimmed).type),
                           descriptionLines)
            ELSE IF JsTagMatch(trimmed) \/ startsWith(trimmed, <<"@">>)
            THEN JsDocLoop(lines, k + 1, params, returns, descriptionLines)
            ELSE JsDocLoop(lines, k + 1, params, returns, Append(descriptionLines, trimmed))

\* BaseParser.parseJSDocStyle of the comment with the given lines
parseJSDocStyle(content) ==
    LET marked       == Join([k \in DOMAIN content |-> JsStripClose(JsStripOpen(content[k]))],
                             <<"\n">>)
        cleanContent == trim(RemoveStars(marked, 1, EmptyStr))
    IN JsDocLoop(split(cleanContent, "\n"), 1, <<>>, NoReturn, <<>>)

RECURSIVE RemoveSlashes(_, _, _)
\* .replace(/^\/\/\s?/gm, ''): at each line start, two slashes and one blank
\* after them are removed
RemoveSlashes(text, i, acc) ==
    IF i > Len(text) THEN acc
    ELSE IF LineStart(text, i) /\ WordAt(text, i, <<"/", "/">>)
    THEN RemoveSlashes(text,
                       IF i + 1 < Len(text) /\ text[i + 2] \in Whitespace THEN i + 3 ELSE i + 2,
                       acc)
    ELSE RemoveSlashes(text, i + 1, Append(acc, text[i]))

\* BaseParser.parseGoDocStyle of the comment with the given lines
parseGoDocStyle(content) ==
    [description |-> trim(RemoveSlashes(Join(content, <<"\n">>), 1, EmptyStr)),
     params |-> <<>>, returns |-> NoReturn]

\* BaseParser.parseDocumentation for the doc types of the three parsers
parseDocumentation(content, docType) ==
    IF docType = JSDoc \/ docType = JavaDoc THEN parseJSDocStyle(content)
    ELSE IF docType = PyDoc THEN parsePyDocStyle(content)
    ELSE parseGoDocStyle(content)

----------------------------------------------------------------------------
(* From the texts of a pair to the analyzer's view of them                 *)

RECURSIVE WordRuns(_, _, _)
\* the maximal runs of word characters of text, in order; current is the run
\* that ends before position i
WordRuns(text, i, current) ==
    IF i > Len(text) THEN IF current = EmptyStr THEN <<>> ELSE <<current>>
    ELSE IF text[i] \in WordChars THEN WordRuns(text, i + 1, Append(current, text[i]))
    ELSE IF current = EmptyStr THEN WordRuns(text, i + 1, EmptyStr)
    ELSE <<current>> \o WordRuns(text, i + 1, EmptyStr)

\* the description as the analyzer reads it: its regular expressions match
\* whole runs of word characters; no description here has a back-tick
DescriptionTokens(text) ==
    LET words == WordRuns(text, 1, EmptyStr)
    IN [k \in DOMAIN words |-> [word |-> words[k], quoted |-> FALSE]]

\* the code body as the analyzer reads it
CodeBodyWords(content) == WordRuns(Join(content, <<"\n">>), 1, EmptyStr)

\* hashContent: the MD5 digest stands for the text it is computed from
hashContent(content) == <<"md5", content>>

\* generatePairId
generatePairId(filePath, lineNumber) == <<hashContent(filePath), lineNumber>>

\* the reasons that analyzePair collects for the pair with the parsed
\* documentation doc
PairReasons(pair, doc) ==
    analyzePairReasons([description |-> DescriptionTokens(doc.description),
                        params |-> doc.params, returns |-> doc.returns],
                       pair.codeSignature, CodeBodyWords(pair.codeContent))

\* the pair that analyzePair returns for the reasons it collected
AnalyzedPair(pair, reasons, now) ==
    [pair EXCEPT !.driftScore = calculateDriftScore(reasons),
                 !.driftReasons = reasons,
                 !.lastAnalyzed = now]

\* the mutant of analyzePair: the id of the pair embeds the time of analysis
analyzePair_IdByTime(pair, now) ==
    [AnalyzedPair(pair, PairReasons(pair, parseDocumentation(pair.docContent, pair.docType)), now)
        EXCEPT !.id = <<@, now>>]

\* DriftAnalyzer.analyzePair at the time now
analyzePair(pair, now) ==
    AnalyzedPair(pair, PairReasons(pair, parseDocumentation(pair.docContent, pair.docType)), now)

----------------------------------------------------------------------------
(* ParserRegistry.  parsers maps a language id to a parser and              *)
(* extensionMap maps a file extension to a language id; a map is a function *)
(* on its keys.  A parser is [name, languageId, fileExtensions], a document *)
(* is [fsPath, languageId, lines, fault]: fault is "analyse" for a text on   *)
(* which the analysis of a pair throws, and "none" otherwise.               *)

Extensions(exts) == [k \in DOMAIN exts |-> Chars(exts[k])]

TypeScriptParser ==
    [name |-> "TypeScriptParser", languageId |-> "typescript",
     fileExtensions |-> Extensions(<<".ts", ".tsx", ".js", ".jsx", ".mjs", ".cjs">>)]

PythonParser ==
    [name |-> "PythonParser", languageId |-> "python",
     fileExtensions |-> Extensions(<<".py", ".pyw", ".pyi">>)]

GoParser ==
    [name |-> "GoParser", languageId |-> "go", fileExtensions |-> Extensions(<<".go">>)]

\* the undefined that the lookups return when they find nothing
NoParser == [name |-> "undefined", languageId |-> "", fileExtensions |-> <<>>]

\* Map.prototype.set
MapSet(map, key, value) == (key :> value) @@ map

\* Map.prototype.get, with the given value for undefined
MapGet(map, key, undefined) == IF key \in DOMAIN map THEN map[key] ELSE undefined

RECURSIVE SetExtensions(_, _, _)
\* the loop of registerParser over parser.fileExtensions
SetExtensions(map, parser, k) ==
    IF k > Len(parser.fileExtensions) THEN map
    ELSE SetExtensions(MapSet(map, parser.fileExtensions[k], parser.languageId), parser, k + 1)

\* ParserRegistry.registerParser; a registry is [parsers, extensionMap]
registerParser(registry, parser) ==
    [parsers      |-> MapSet(registry.parsers, parser.languageId, parser),
     extensionMap |-> SetExtensions(registry.extensionMap, parser, 1)]

\* ParserRegistry.registerDefaultParsers on the empty registry
registerDefaultParsers ==
    LET ts    == registerParser([parsers |-> <<>>, extensionMap |-> <<>>], TypeScriptParser)
        react == MapSet(MapSet(MapSet(ts.parsers, "javascript", TypeScriptParser),
                               "javascriptreact", TypeScriptParser),
                        "typescriptreact", TypeScriptParser)
    IN registerParser([parsers |-> react, extensionMap |-> ts.extensionMap], PythonParser)

\* the mutant of getFileExtension: the extension as it is written in the path
getFileExtension_AsWritten(filePath) ==
    LET lastDot == lastIndexOf(filePath, ".")
    IN IF lastDot = 0 THEN EmptyStr ELSE From(filePath, lastDot)

\* ParserRegistry.getFileExtension
getFileExtension(filePath) ==
    LET lastDot == lastIndexOf(filePath, ".")
    IN IF lastDot = 0 THEN EmptyStr ELSE toLowerCase(From(filePath, lastDot))

\* ParserRegistry.getParser
getParser(registry, document) ==
    LET parser == MapGet(registry.parsers, document.languageId, NoParser)
    IN IF parser # NoParser THEN parser
       ELSE LET ext        == getFileExtension(document.fsPath)
                languageId == MapGet(registry.extensionMap, ext, "")
            IN IF languageId # "" THEN MapGet(registry.parsers, languageId, NoParser)
               ELSE NoParser

\* ParserRegistry.getParserByLanguageId
getParserByLanguageId(registry, languageId) == MapGet(registry.parsers, languageId, NoParser)

\* extractCodeSignature of the parser on the code of a pair, with its hash
SignatureOfPair(parser, code) ==
    IF parser = TypeScriptParser
    THEN [hash |-> hashContent(code)] @@ TsExtractCodeSignature(code)
    ELSE IF parser = PythonParser
    THEN [hash |-> hashContent(code)] @@ PyExtractCodeSignature(code)
    ELSE [hash |-> EmptyStr] @@ GoExtractCodeSignature(Join(code, <<"\n">>))

\* BaseParser.createPair with all the fields of a DocCodePair
DocCodePair(filePath, pair, signature, now) ==
    [id            |-> generatePairId(filePath, pair.docRange.start.line),
     filePath      |-> filePath,
     docRange      |-> pair.docRange,
     docContent    |-> pair.docContent,
     docType       |-> pair.docType,
     codeRange     |-> pair.codeRange,
     codeContent   |-> pair.codeContent,
     codeSignature |-> signature,
     driftScore    |-> DblZero,
     driftReasons  |-> <<>>,
     lastAnalyzed  |-> now,
     isReviewed    |-> FALSE]

\* parser.parseDocCodePairs(document) at the time now
parseDocCodePairs(parser, document, now) ==
    LET found == IF parser = TypeScriptParser THEN TsParseDocCodePairs(document.lines)
                 ELSE IF parser = PythonParser THEN PyParseDocCodePairs(document.lines)
                 ELSE GoParseDocCodePairs(document.lines)
    IN [k \in DOMAIN found |->
           DocCodePair(document.fsPath, found[k],
                       SignatureOfPair(parser, found[k].codeContent), now)]

\* ParserRegistry.parseDocument; no parser throws on a text of this model, so
\* that its catch block is never entered
parseDocument(registry, document, now) ==
    LET parser == getParser(registry, document)
    IN IF parser = NoParser THEN <<>>
       ELSE parseDocCodePairs(parser, document, now)

----------------------------------------------------------------------------
(* WorkspaceScanner                                                        *)

\* config.supportedLanguages: the default list and go
supportedLanguages ==
    {"javascript", "typescript", "javascriptreact", "typescriptreact", "python", "go"}

\* config.excludePatterns, the default list; each pattern **/dir/** is dir
excludePatterns == {Chars("node_modules"), Chars("dist"), Chars("build"), Chars(".git")}

\* minimatch(filePath, '**/dir/**', { dot: true }): dir is a directory of the path
minimatch(filePath, dir) ==
    LET segments == split(filePath, "/")
    IN \E k \in 1..(Len(segments) - 1) : segments[k] = dir

\* WorkspaceScanner.shouldExclude
shouldExclude(filePath) == \E pattern \in excludePatterns : minimatch(filePath, pattern)

\* the early returns of scanDocument: the path is excluded, the language is
\* not supported, or the registry has no parser for the document
ScanSkips(registry, document) ==
    \/ shouldExclude(document.fsPath)
    \/ document.languageId \notin supportedLanguages
    \/ getParser(registry, document) = NoParser

\* const pairs of scanDocument; scanning says whether scanDocument makes the
\* call of parseDocument, with its early returns before it, or the caller of
\* the registry does
ScanParsed(registry, document, scanning, now) ==
    IF scanning /\ ScanSkips(registry, document) THEN <<>>
    ELSE parseDocument(registry, document, now)

\* the analysis of a pair of the document throws
AnalysisThrows(document, pairs) == document.fault = "analyse" /\ pairs # <<>>

\* const analyzedPairs of scanDocument, for the pairs that parseDocument gave
ScanAnalyzed(document, pairs, now) ==
    IF AnalysisThrows(document, pairs) THEN <<>>
    ELSE [k \in DOMAIN pairs |-> analyzePair(pairs[k], now)]

\* what scanDocument did on the document whose parsed pairs and analyzed pairs
\* are given: the pairs it returned, whether it stored them under the path,
\* and whether it threw instead of returning
scanDocument(registry, document, parsed, analyzed) ==
    IF ScanSkips(registry, document)
    THEN [pairs |-> <<>>, stored |-> FALSE, raised |-> FALSE]
    ELSE IF AnalysisThrows(document, parsed)
    THEN [pairs |-> <<>>, stored |-> FALSE, raised |-> TRUE]
    ELSE [pairs |-> analyzed, stored |-> TRUE, raised |-> FALSE]

\* WorkspaceScanner.getSupportedExtensions
getSupportedExtensions(registry) ==
    UNION {Range(getParserByLanguageId(registry, langId).fileExtensions) :
              langId \in supportedLanguages}

\* scanResults is a Map, which keeps its keys in the order of their first
\* insertion: a sequence of entries [path, pairs] with distinct paths

\* the position of the entry of the path in results, 0 if it has none
EntryOf(results, filePath) ==
    IF \E k \in DOMAIN results : results[k].path = filePath
    THEN CHOOSE k \in DOMAIN results : results[k].path = filePath
    ELSE 0

\* this.scanResults.set(filePath, pairs)
ResultsSet(results, filePath, pairs) ==
    IF EntryOf(results, filePath) = 0
    THEN Append(results, [path |-> filePath, pairs |-> pairs])
    ELSE [results EXCEPT ![EntryOf(results, filePath)].pairs = pairs]

\* WorkspaceScanner.getResultsForFile; undefined is the empty list here
getResultsForFile(results, filePath) ==
    IF EntryOf(results, filePath) = 0 THEN <<>>
    ELSE results[EntryOf(results, filePath)].pairs

RECURSIVE getAllResults(_)
\* WorkspaceScanner.getAllResults
getAllResults(results) ==
    IF results = <<>> THEN <<>>
    ELSE Head(results).pairs \o getAllResults(Tail(results))

\* this.scanResults.delete(filePath)
ResultsDelete(results, filePath) == SelectSeq(results, LAMBDA e : e.path # filePath)

----------------------------------------------------------------------------
(* SpecScan: the registry and the scanner as one state machine.  A call     *)
(* takes the machine from "idle" to "returned", where returned holds the    *)
(* pairs it returned, and Return takes it back.  A call that parses goes    *)
(* through "parsing", where it awaits the parsers, and a scan goes on       *)
(* through "analyzing"; no other call runs in between.  A workspace scan    *)
(* parses the opened files, analyzes them and then stores them file by      *)
(* file: neither parsing nor analysis reads the stored results, so that     *)
(* this gives what the loop gives that does the three for each file in      *)
(* turn.  The clock does not advance during a call.  The configuration of   *)
(* the scanner is fixed.  calls records what the checked properties speak       *)
(* about: the parsers registered so far, the document each stored result    *)
(* came from, and the last call.  parsedPairs and analyzedPairs hold the    *)
(* locals pairs and analyzedPairs of scanDocument, one entry for each       *)
(* document that the call scanned.                                          *)

MaxRegistrations == 1

\* the values of new Date() in a scan of one document
Times == {1, 2}

\* the values of new Date() in the other calls
LaterTimes == {2}

DocumentOf(path, languageId, lines, fault) ==
    [fsPath |-> Chars(path), languageId |-> languageId, lines |-> Docstring(lines),
     fault |-> fault]

Documents ==
    {DocumentOf("a.py", "python",
                <<"def add(a):", "    '''Adds.'''", "    return a">>, "none"),
     DocumentOf("a.py", "python",
                <<"def add(a):", "    ''':param b: x'''", "    return a">>, "none"),
     DocumentOf("b.ts", "typescript",
                <<"/** @param {number} b x */", "function add(a) {", "}">>, "none"),
     DocumentOf("b.ts", "typescript",
                <<"/** Adds. */", "function add(a) {", "}">>, "analyse"),
     DocumentOf("c.go", "go", <<"// Add adds.", "func Add(a int) int {", "}">>, "none"),
     DocumentOf("lib/D.PY", "plaintext",
                <<"def add(a):", "    '''Adds.'''", "    return a">>, "none")}

\* the files of the workspace folder, in the order findFiles reports them
WorkspacePaths == Docstring(<<"a.py", "b.ts", "c.go", "lib/D.PY", "node_modules/e.py">>)

\* the paths that results are asked for
ResultPaths == Range(Docstring(<<"a.py", "b.ts", "c.go">>))

\* the parsers that registerParser is called with
LanguageParsers == {PythonParser, GoParser}

\* openTextDocument failed
OpenFailure == DocumentOf("", "", <<>>, "open")

NoDocument == DocumentOf("", "", <<>>, "none")

Registry == [parsers |-> parsers, extensionMap |-> extensionMap]

\* a registration: the language id, the parser set for it and the extensions
\* mapped to it
Registration(languageId, parser, exts) ==
    [languageId |-> languageId, parser |-> parser, fileExtensions |-> exts]

\* the registrations of the constructor
DefaultRegistrations ==
    <<Registration("typescript", TypeScriptParser, TypeScriptParser.fileExtensions),
      Registration("javascript", TypeScriptParser, <<>>),
      Registration("javascriptreact", TypeScriptParser, <<>>),
      Registration("typescriptreact", TypeScriptParser, <<>>),
      Registration("python", PythonParser, PythonParser.fileExtensions)>>

\* no stored result: what a call that is no scanDocument found before it
NoEntry == [document |-> NoDocument, pairs |-> <<>>]

Call(op, document, parser, raised, before, outcomes) ==
    [op |-> op, document |-> document, parser |-> parser, raised |-> raised,
     before |-> before, outcomes |-> outcomes, opened |-> <<>>, now |-> 0]

\* a call that awaits the parsers: the documents it works on and its time
Awaiting(op, document, parser, before, opened, now) ==
    [Call(op, document, parser, FALSE, before, <<>>) EXCEPT !.opened = opened, !.now = now]

Idle == Call("idle", NoDocument, NoParser, FALSE, NoEntry, <<>>)

InitScan ==
    /\ pc = "idle"
    /\ ExtractIdle
    /\ AnalysisIdle
    /\ HostIdle
    /\ parsers = registerDefaultParsers.parsers
    /\ extensionMap = registerDefaultParsers.extensionMap
    /\ scanResults = <<>>
    /\ parsedPairs = <<>>
    /\ analyzedPairs = <<>>
    /\ returned = <<>>
    /\ calls = [registered |-> DefaultRegistrations, source |-> <<>>, last |-> Idle]

scanUnchanged == <<analysisVars, extractVars, parsedPairs, analyzedPairs>>

\* ParserRegistry.registerParser(parser)
RegisterParser(parser) ==
    /\ pc = "idle"
    /\ Len(calls.registered) < Len(DefaultRegistrations) + MaxRegistrations
    /\ pc' = "returned"
    /\ parsers' = registerParser(Registry, parser).parsers
    /\ extensionMap' = registerParser(Registry, parser).extensionMap
    /\ calls' = [calls EXCEPT
                    !.registered = Append(@, Registration(parser.languageId, parser,
                                                          parser.fileExtensions)),
                    !.last = Call("registerParser", NoDocument, parser, FALSE, NoEntry, <<>>)]
    /\ UNCHANGED <<scanResults, returned, scanUnchanged, hostVars>>

\* ParserRegistry.getParser(document)
GetParser(document) ==
    /\ pc = "idle"
    /\ pc' = "returned"
    /\ calls' = [calls EXCEPT
                    !.last = Call("getParser", document, getParser(Registry, document),
                                  FALSE, NoEntry, <<>>)]
    /\ UNCHANGED <<parsers, extensionMap, scanResults, returned, scanUnchanged, hostVars>>

\* ParserRegistry.parseDocument(document) at the time now is called
ParseDocument(document, now) ==
    /\ pc = "idle"
    /\ pc' = "parsing"
    /\ calls' = [calls EXCEPT
                    !.last = Awaiting("parseDocument", document, getParser(Registry, document),
                                      NoEntry, <<document>>, now)]
    /\ UNCHANGED <<parsers, extensionMap, scanResults, returned, scanUnchanged, hostVars>>

\* the stored result of the path and the document it came from
EntryBefore(filePath) ==
    [document |-> MapGet(calls.source, filePath, NoDocument),
     pairs    |-> getResultsForFile(scanResults, filePath)]

\* the scanner after scanDocument(document) with the given result
Scanned(document, result) ==
    /\ scanResults' = IF result.stored
                      THEN ResultsSet(scanResults, document.fsPath, result.pairs)
                      ELSE scanResults
    /\ returned' = result.pairs
    /\ calls' = [calls EXCEPT
                    !.source = IF result.stored THEN MapSet(@, document.fsPath, document)
                               ELSE @,
                    !.last = Call("scanDocument", document,
                                  getParser(Registry, document), result.raised,
                                  EntryBefore(document.fsPath), <<>>)]

\* WorkspaceScanner.scanDocument(document) at the time now is called
ScanDocument(document, now) ==
    /\ pc = "idle"
    /\ pc' = "parsing"
    /\ calls' = [calls EXCEPT
                    !.last = Awaiting("scanDocument", document, getParser(Registry, document),
                                      EntryBefore(document.fsPath), <<document>>, now)]
    /\ UNCHANGED <<parsers, extensionMap, scanResults, returned, scanUnchanged, hostVars>>

\* WorkspaceScanner.findSupportedFiles: the files of the folder that end in a
\* supported extension and match no exclude pattern
findSupportedFiles(registry) ==
    SelectSeq(WorkspacePaths,
              LAMBDA path : /\ getFileExtension_AsWritten(path) \in getSupportedExtensions(registry)
                            /\ ~shouldExclude(path))

\* the body of the loop of scanWorkspace for one file: scan is what
\* scanDocument did with the opened document; the result is the results map
\* and the outcome of the file (whether it failed and which pairs it gave)
FileStep(filePath, opened, scan, results) ==
    IF opened = OpenFailure \/ scan.raised
    THEN [results |-> results,
          outcome |-> [path |-> filePath, failed |-> TRUE, pairs |-> <<>>]]
    ELSE [results |-> ResultsSet(IF scan.stored
                                 THEN ResultsSet(results, filePath, scan.pairs)
                                 ELSE results,
                                 filePath, scan.pairs),
          outcome |-> [path |-> filePath, failed |-> FALSE, pairs |-> scan.pairs]]

RECURSIVE WorkspaceLoop(_, _, _, _, _, _, _)
\* the loop of scanWorkspace over the files: opened[k] is the document that
\* openTextDocument gives for files[k], or OpenFailure
WorkspaceLoop(registry, files, opened, parsed, analyzed, k, steps) ==
    IF k > Len(files) THEN steps
    ELSE WorkspaceLoop(registry, files, opened, parsed, analyzed, k + 1,
                       Append(steps,
                              FileStep(files[k], opened[k],
                                       scanDocument(registry, opened[k], parsed[k],
                                                    analyzed[k]),
                                       IF steps = <<>> THEN scanResults
                                       ELSE steps[Len(steps)].results)))

RECURSIVE AllPairs(_)
\* allPairs of scanWorkspace: the pairs of the files that did not fail
AllPairs(outcomes) ==
    IF outcomes = <<>> THEN <<>> ELSE Head(outcomes).pairs \o AllPairs(Tail(outcomes))

\* the documents that openTextDocument can give for the files, or its failure
Openings(files) ==
    {opened \in [DOMAIN files -> Documents \cup {OpenFailure}] :
        \A k \in DOMAIN files : opened[k] = OpenFailure \/ opened[k].fsPath = files[k]}

\* the documents that the stored results came from, after the files that did
\* not fail were stored
Sources(source, opened, outcomes) ==
    [path \in DOMAIN source \cup {outcomes[k].path : k \in {j \in DOMAIN outcomes : ~outcomes[j].failed}} |->
        IF \E k \in DOMAIN outcomes : outcomes[k].path = path /\ ~outcomes[k].failed
        THEN opened[CHOOSE k \in DOMAIN outcomes : outcomes[k].path = path]
        ELSE source[path]]

\* the scanner after the loop of scanWorkspace took the given steps
WorkspaceScanned(files, opened, steps) ==
    /\ scanResults' = IF steps = <<>> THEN scanResults ELSE steps[Len(steps)].results
    /\ returned' = AllPairs([k \in files |-> steps[k].outcome])
    /\ calls' = [calls EXCEPT
                    !.source = Sources(@, opened, [k \in files |-> steps[k].outcome]),
                    !.last = Call("scanWorkspace", NoDocument, NoParser, FALSE, NoEntry,
                                  [k \in files |-> steps[k].outcome])]

\* WorkspaceScanner.scanWorkspace() with one workspace folder is called at
\* the time now; opened is what openTextDocument gives for its files
ScanWorkspace(opened, now) ==
    /\ pc = "idle"
    /\ pc' = "parsing"
    /\ calls' = [calls EXCEPT
                    !.last = Awaiting("scanWorkspace", NoDocument, NoParser, NoEntry, opened,
                                      now)]
    /\ UNCHANGED <<parsers, extensionMap, scanResults, returned, scanUnchanged, hostVars>>

\* the parsers did their work for the call: parseDocument returns, and a scan
\* goes on to the analysis
ParsePairs ==
    /\ pc = "parsing"
    /\ parsedPairs' = [k \in DOMAIN calls.last.opened |->
                          IF calls.last.opened[k] = OpenFailure THEN <<>>
                          ELSE ScanParsed(Registry, calls.last.opened[k],
                                          calls.last.op # "parseDocument", calls.last.now)]
    /\ pc' = IF calls.last.op = "parseDocument" THEN "returned" ELSE "analyzing"
    /\ returned' = IF calls.last.op = "parseDocument" THEN parsedPairs'[1] ELSE returned
    /\ UNCHANGED <<parsers, extensionMap, scanResults, analyzedPairs, calls, analysisVars,
                   extractVars, hostVars>>

\* the analyzer did its work for the scan, and the scan stores and returns;
\* what scanDocument throws reaches its caller
AnalyzePairs ==
    /\ pc = "analyzing"
    /\ pc' = "returned"
    /\ analyzedPairs' = [k \in DOMAIN calls.last.opened |->
                            IF calls.last.opened[k] = OpenFailure THEN <<>>
                            ELSE ScanAnalyzed(calls.last.opened[k], parsedPairs[k],
                                              calls.last.now)]
    /\ IF calls.last.op = "scanDocument"
       THEN Scanned(calls.last.document,
                    scanDocument(Registry, calls.last.document, parsedPairs[1],
                                 analyzedPairs'[1]))
       ELSE WorkspaceScanned(DOMAIN calls.last.opened, calls.last.opened,
                             WorkspaceLoop(Registry, findSupportedFiles(Registry),
                                           calls.last.opened, parsedPairs, analyzedPairs', 1,
                                           <<>>))
    /\ UNCHANGED <<parsers, extensionMap, parsedPairs, analysisVars, extractVars, hostVars>>

\* WorkspaceScanner.scanWorkspace() without a workspace folder
ScanNoWorkspace ==
    /\ pc = "idle"
    /\ pc' = "returned"
    /\ returned' = <<>>
    /\ calls' = [calls EXCEPT
                    !.last = Call("scanNoWorkspace", NoDocument, NoParser, FALSE, NoEntry, <<>>)]
    /\ UNCHANGED <<parsers, extensionMap, scanResults, scanUnchanged, hostVars>>

\* WorkspaceScanner.getResultsForFile(filePath)
GetResultsForFile(filePath) ==
    /\ pc = "idle"
    /\ pc' = "returned"
    /\ returned' = getResultsForFile(scanResults, filePath)
    /\ calls' = [calls EXCEPT
                    !.last = Call("getResultsForFile", [NoDocument EXCEPT !.fsPath = filePath],
                                  NoParser, FALSE, NoEntry, <<>>)]
    /\ UNCHANGED <<parsers, extensionMap, scanResults, scanUnchanged, hostVars>>

\* WorkspaceScanner.getAllResults()
GetAllResults ==
    /\ pc = "idle"
    /\ pc' = "returned"
    /\ returned' = getAllResults(scanResults)
    /\ calls' = [calls EXCEPT
                    !.last = Call("getAllResults", NoDocument, NoParser, FALSE, NoEntry, <<>>)]
    /\ UNCHANGED <<parsers, extensionMap, scanResults, scanUnchanged, hostVars>>

\* WorkspaceScanner.clearResults()
ClearResults ==
    /\ pc = "idle"
    /\ pc' = "returned"
    /\ scanResults' = <<>>
    /\ calls' = [calls EXCEPT
                    !.source = <<>>,
                    !.last = Call("clearResults", NoDocument, NoParser, FALSE, NoEntry, <<>>)]
    /\ UNCHANGED <<parsers, extensionMap, returned, scanUnchanged, hostVars>>

\* WorkspaceScanner.clearResultsForFile(filePath)
ClearResultsForFile(filePath) ==
    /\ pc = "idle"
    /\ pc' = "returned"
    /\ scanResults' = ResultsDelete(scanResults, filePath)
    /\ calls' = [calls EXCEPT
                    !.source = [path \in DOMAIN @ \ {filePath} |-> @[path]],
                    !.last = Call("clearResultsForFile",
                                  [NoDocument EXCEPT !.fsPath = filePath],
                                  NoParser, FALSE, NoEntry, <<>>)]
    /\ UNCHANGED <<parsers, extensionMap, returned, scanUnchanged, hostVars>>

\* the caller has the result and the scanner waits for the next call
Return ==
    /\ pc = "returned"
    /\ pc' = "idle"
    /\ returned' = <<>>
    /\ parsedPairs' = <<>>
    /\ analyzedPairs' = <<>>
    /\ calls' = [calls EXCEPT !.last = Idle]
    /\ UNCHANGED <<parsers, extensionMap, scanResults, analysisVars, extractVars, hostVars>>

NextScan ==
    \/ \E parser \in LanguageParsers : RegisterParser(parser)
    \/ \E document \in Documents : GetParser(document)
    \/ \E document \in Documents, now \in LaterTimes : ParseDocument(document, now)
    \/ \E document \in Documents, now \in Times : ScanDocument(document, now)
    \/ \E opened \in Openings(findSupportedFiles(Registry)), now \in LaterTimes :
          ScanWorkspace(opened, now)
    \/ ParsePairs
    \/ AnalyzePairs
    \/ ScanNoWorkspace
    \/ \E filePath \in ResultPaths : GetResultsForFile(filePath)
    \/ GetAllResults
    \/ ClearResults
    \/ \E filePath \in ResultPaths : ClearResultsForFile(filePath)
    \/ Return

SpecScan == InitScan /\ [][NextScan]_vars

----------------------------------------------------------------------------
(* Properties of SpecScan                                                  *)

\* two pairs agree in everything but lastAnalyzed
AgreeButTime(p, q) ==
    /\ p.id = q.id
    /\ p.docRange = q.docRange
    /\ p.codeRange = q.codeRange
    /\ p.codeSignature = q.codeSignature
    /\ p.driftReasons = q.driftReasons
    /\ p.driftScore = q.driftScore

\* scanDocument returned for a document whose text is the text that the
\* stored result of its path came from
Rescanned ==
    /\ pc = "returned"
    /\ calls.last.op = "scanDocument"
    /\ ~calls.last.raised
    /\ calls.last.before.document = calls.last.document

\* C11: scanning the same unchanged document text again, whatever was scanned
\* in between, returns a pair list as long as the one stored for it, and the
\* two agree position by position in id, documentation and code ranges,
\* codeSignature with its hash, driftReasons and driftScore
C11_ScanIdempotent ==
    Rescanned =>
        /\ Len(returned) = Len(calls.last.before.pairs)
        /\ \A k \in DOMAIN returned : AgreeButTime(returned[k], calls.last.before.pairs[k])

\* C11 witness: a second scan of the same text returned a pair with drift
\* reasons at another time than the first, with another file scanned as well
C11_WitnessRescanned ==
    /\ Rescanned
    /\ returned # <<>>
    /\ returned[1].driftReasons # <<>>
    /\ returned[1].lastAnalyzed # calls.last.before.pairs[1].lastAnalyzed
    /\ Len(scanResults) > 1

\* scanWorkspace returned; calls.last.outcomes has, for each file in turn,
\* whether it failed and the pairs it gave
WorkspaceReturned == pc = "returned" /\ calls.last.op = "scanWorkspace"

\* the pairs of the list that belong to the file
PairsOfFile(list, filePath) == SelectSeq(list, LAMBDA pair : pair.filePath = filePath)

\* C12: after a workspace scan, a file that failed to open or to be analysed
\* has no pair in the returned list, in getResultsForFile and in
\* getAllResults, and every other file has its pairs in all three
C12_FailureIsZeroPairs ==
    WorkspaceReturned =>
        \A k \in DOMAIN calls.last.outcomes :
            /\ PairsOfFile(returned, calls.last.outcomes[k].path) = calls.last.outcomes[k].pairs
            /\ getResultsForFile(scanResults, calls.last.outcomes[k].path)
                  = calls.last.outcomes[k].pairs
            /\ PairsOfFile(getAllResults(scanResults), calls.last.outcomes[k].path)
                  = calls.last.outcomes[k].pairs
            /\ calls.last.outcomes[k].failed => calls.last.outcomes[k].pairs = <<>>

\* C12, the part that holds: a failure does not end the scan; every file
\* that did not fail has its pairs in the returned list and in the stored
\* results, and a file that failed has no pair in the returned list
C12_FailureConfined ==
    WorkspaceReturned =>
        \A k \in DOMAIN calls.last.outcomes :
            /\ PairsOfFile(returned, calls.last.outcomes[k].path) = calls.last.outcomes[k].pairs
            /\ calls.last.outcomes[k].failed => calls.last.outcomes[k].pairs = <<>>
            /\ ~calls.last.outcomes[k].failed =>
                  /\ getResultsForFile(scanResults, calls.last.outcomes[k].path)
                        = calls.last.outcomes[k].pairs
                  /\ PairsOfFile(getAllResults(scanResults), calls.last.outcomes[k].path)
                        = calls.last.outcomes[k].pairs

\* C12 witness: a workspace scan in which the first file failed and a later
\* file gave a pair
C12_WitnessFailureConfined ==
    /\ WorkspaceReturned
    /\ Len(calls.last.outcomes) > 1
    /\ calls.last.outcomes[1].failed
    /\ returned # <<>>
    /\ \E k \in DOMAIN calls.last.outcomes :
          /\ ~calls.last.outcomes[k].failed
          /\ calls.last.outcomes[k].pairs # <<>>

\* the registrations so far under the language id, and those of a parser
\* that has the extension
RegisteredUnder(languageId) ==
    {k \in DOMAIN calls.registered : calls.registered[k].languageId = languageId}

RegisteredFor(ext) ==
    {k \in DOMAIN calls.registered : ext \in Range(calls.registered[k].fileExtensions)}

\* the last of a non-empty set of registrations
LastRegistration(registrations) ==
    calls.registered[CHOOSE k \in registrations : \A j \in registrations : j <= k]

\* the parser last registered under the language id, if there is one
RegisteredParser(languageId) ==
    IF RegisteredUnder(languageId) = {} THEN NoParser
    ELSE LastRegistration(RegisteredUnder(languageId)).parser

\* the path from its last dot on, in lower case
LowerCasedExtension(filePath) ==
    IF \A k \in DOMAIN filePath : filePath[k] # "." THEN EmptyStr
    ELSE toLowerCase(SubSeq(filePath,
                            CHOOSE k \in DOMAIN filePath :
                                /\ filePath[k] = "."
                                /\ \A j \in (k + 1)..Len(filePath) : filePath[j] # ".",
                            Len(filePath)))

\* the parser that the registrations so far give the document: the one
\* registered under its language id, failing that the one registered under
\* the language id that its lower-cased extension was last mapped to
ExpectedParser(document) ==
    IF RegisteredUnder(document.languageId) # {} THEN RegisteredParser(document.languageId)
    ELSE IF RegisteredFor(LowerCasedExtension(document.fsPath)) # {}
    THEN RegisteredParser(
             LastRegistration(RegisteredFor(LowerCasedExtension(document.fsPath))).languageId)
    ELSE NoParser

\* C13: after any registrations, getParser returns the parser registered
\* under the language id of the document, failing that the parser of the
\* language id mapped to its lower-cased extension, failing both no parser;
\* without a parser parseDocument and scanDocument return an empty list and
\* throw nothing; and every language id registered so far still looks up the
\* parser last registered under it, whatever was registered after it
C13_RegistryLookup ==
    /\ (pc = "returned" /\ calls.last.op = "getParser")
          => calls.last.parser = ExpectedParser(calls.last.document)
    /\ (/\ pc = "returned"
        /\ calls.last.op \in {"parseDocument", "scanDocument"}
        /\ ExpectedParser(calls.last.document) = NoParser)
          => returned = <<>> /\ ~calls.last.raised
    /\ \A k \in DOMAIN calls.registered :
          getParserByLanguageId(Registry, calls.registered[k].languageId)
            = RegisteredParser(calls.registered[k].languageId)

\* C13 witness: after the registration of a parser for a new language,
\* getParser found the parser of a document of an unregistered language id by
\* its extension, which the path has in upper case
C13_WitnessByExtension ==
    /\ pc = "returned"
    /\ calls.last.op = "getParser"
    /\ Len(calls.registered) > Len(DefaultRegistrations)
    /\ GoParser \in Range([k \in DOMAIN calls.registered |-> calls.registered[k].parser])
    /\ RegisteredUnder(calls.last.document.languageId) = {}
    /\ calls.last.document.fsPath # toLowerCase(calls.last.document.fsPath)
    /\ calls.last.parser = PythonParser

\* C13, a second case that happens: scanDocument returned for a document
\* that no parser is registered for
C13_WitnessNoParser ==
    /\ pc = "returned"
    /\ calls.last.op = "scanDocument"
    /\ calls.last.document.languageId \in supportedLanguages
    /\ ExpectedParser(calls.last.document) = NoParser
    /\ returned = <<>>

----------------------------------------------------------------------------
(* The score of a non-empty reason list                                    *)

\* the first k reasons of the scored list
FirstReasons(k) == SubSeq(driftReasons, 1, k)

\* C30: the score is 0 only for the empty reason list, a list with a reason
\* of any type and severity has a score above 0, and the score of a list is
\* never below the score of the list without its last reason
C30_PositiveScore ==
    Scored =>
        /\ (driftScore = DblZero) <=> (driftReasons = <<>>)
        /\ \A k \in DOMAIN driftReasons :
              /\ DblLess(DblZero, calculateDriftScore(FirstReasons(k)))
              /\ ~DblLess(calculateDriftScore(FirstReasons(k)),
                          calculateDriftScore(FirstReasons(k - 1)))

\* C30 witness: a scored list of several reasons whose last reason has a type
\* outside the weight table and the lowest severity, and that raised the score
C30_WitnessDefaultWeight ==
    /\ Scored
    /\ Len(driftReasons) > 1
    /\ driftReasons[Len(driftReasons)].type = MissingDocumentation
    /\ driftReasons[Len(driftReasons)].severity = Low
    /\ DblLess(calculateDriftScore(FirstReasons(Len(driftReasons) - 1)), driftScore)

----------------------------------------------------------------------------
(* Order and spans of the extracted pairs                                  *)

\* the lines of the code span of pair p
CodeSpan(p) == CodeStart(p)..CodeEnd(p)

\* the id that createPair gives pair p of the file
PairId(p) == generatePairId(Chars("file"), DocStart(p))

\* C28: the pairs of one extraction are in source order, with strictly
\* increasing documentation start lines, their code spans are pairwise
\* disjoint, and no two of them have the same id
C28_OrderedDisjoint ==
    Extracted =>
        \A p, q \in PairIndices :
            p < q =>
                /\ DocStart(p) < DocStart(q)
                /\ CodeSpan(p) \cap CodeSpan(q) = {}
                /\ PairId(p) # PairId(q)

\* C28 for the extractors of the comment-before-code languages
C28_CommentLanguages ==
    (Extracted /\ language # "python") =>
        \A p, q \in PairIndices :
            p < q =>
                /\ DocStart(p) < DocStart(q)
                /\ CodeSpan(p) \cap CodeSpan(q) = {}
                /\ PairId(p) # PairId(q)

\* C28 witness: two pairs of a TypeScript file
C28_WitnessCommentLanguages ==
    /\ Extracted
    /\ language = "typescript"
    /\ Len(docCodePairs) > 1

\* the index of the last line of the file
LastLine == Len(documentLines) - 1

\* the lines of the file from index from to index to
FileLines(from, to) == [k \in 1..(to - from + 1) |-> LineAt(from + k - 1)]

\* both spans of pair p lie in the file
SpansInFile(p) ==
    /\ 0 <= DocStart(p) /\ DocStart(p) <= DocEnd(p) /\ DocEnd(p) <= LastLine
    /\ 0 <= CodeStart(p) /\ CodeStart(p) <= CodeEnd(p) /\ CodeEnd(p) <= LastLine

\* C29: in every pair both spans satisfy 0 <= start line <= end line <= index
\* of the last line of the file, and docContent is the text of exactly the
\* lines of the documentation span
C29_WellFormedSpans ==
    Extracted =>
        \A p \in PairIndices :
            /\ SpansInFile(p)
            /\ docCodePairs[p].docContent = FileLines(DocStart(p), DocEnd(p))

\* C29 for the extractors other than the Rust one
C29_OtherThanRust ==
    (Extracted /\ language # "rust") =>
        \A p \in PairIndices :
            /\ SpansInFile(p)
            /\ docCodePairs[p].docContent = FileLines(DocStart(p), DocEnd(p))

\* C29 witness: a Java pair whose documentation span has two lines, with an
\* annotation line between the documentation and the declaration
C29_WitnessOtherThanRust ==
    /\ Extracted
    /\ language = "java"
    /\ \E p \in PairIndices : DocStart(p) < DocEnd(p) /\ DocEnd(p) + 1 < CodeStart(p)

----------------------------------------------------------------------------
(* SpecHash: the signatures, with their hashes, that the extractor of a    *)
(* language gives two declarations                                         *)

\* the code texts of the declarations, as lines
HashedTexts(lang) ==
    CASE lang = "typescript" ->
             {Docstring(<<"function add(a) {", "}">>), Docstring(<<"function add(a) { }">>),
              Docstring(<<"function  add(a) {", "}">>), Docstring(<<"function add(b) {", "}">>),
              Docstring(<<"function add(a) {", "    return a;", "}">>),
              Docstring(<<"function add(a) {", "  return a;", "}">>)}
      [] lang = "python" ->
             {Docstring(<<"def add(a):", "    return a">>), Docstring(<<"def add(a):", "  return a">>),
              Docstring(<<"def add(a): return a">>), Docstring(<<"def  add(a):", "    return a">>),
              Docstring(<<"def add(b):", "    return b">>), Docstring(<<"def sub(a):", "    return a">>)}
      [] lang = "go" ->
             {Docstring(<<"func Add(a int) int {", "}">>), Docstring(<<"func Add(a int) int { }">>),
              Docstring(<<"func  Add(a int) int {", "}">>), Docstring(<<"func Add(b int) int {", "}">>),
              Docstring(<<"func Sub(a int) int {", "}">>),
              Docstring(<<"func Add(a int) int {", "    return a", "}">>)}

\* the parser of the language
ParserOf(lang) ==
    IF lang = "typescript" THEN TypeScriptParser
    ELSE IF lang = "python" THEN PythonParser
    ELSE GoParser

\* documentLines and codeContent are the code texts of two declarations
InitHash ==
    /\ pc = "declarations"
    /\ language \in {"typescript", "python", "go"}
    /\ documentLines \in HashedTexts(language)
    /\ codeContent \in HashedTexts(language)
    /\ docCodePairs = <<>>
    /\ parsedDoc = NoParsedDoc
    /\ codeSignature = NoSignature
    /\ driftReasons = <<>>
    /\ driftScore = DblZero
    /\ ScanIdle
    /\ HostIdle

\* extractCodeSignature of the language on both texts
ExtractSignatures ==
    /\ pc = "declarations"
    /\ pc' = "hashed"
    /\ returned' = <<SignatureOfPair(ParserOf(language), documentLines),
                     SignatureOfPair(ParserOf(language), codeContent)>>
    /\ UNCHANGED <<analysisVars, extractVars, parsers, extensionMap, scanResults,
                   parsedPairs, analyzedPairs, calls, hostVars>>

NextHash == ExtractSignatures

SpecHash == InitHash /\ [][NextHash]_vars

Hashed == pc = "hashed"

\* the whitespace-normalized text of a declaration
NormalizedText(lines) == normalizeWhitespace(Join(lines, <<"\n">>))

\* C21: the hashes of two declarations are equal if and only if their
\* whitespace-normalized texts are equal
C21_NormalizedHash ==
    Hashed =>
        ((returned[1].hash = returned[2].hash)
            <=> (NormalizedText(documentLines) = NormalizedText(codeContent)))

\* C21, what holds of the TypeScript and Python extractors: the hashes of two
\* declarations are equal if and only if their texts are equal, character by
\* character
C21_TextHash ==
    (Hashed /\ language \in {"typescript", "python"}) =>
        ((returned[1].hash = returned[2].hash) <=> (documentLines = codeContent))

\* C21 witness: two TypeScript declarations that differ in whitespace only
C21_WitnessTextHash ==
    /\ Hashed
    /\ language = "typescript"
    /\ documentLines # codeContent
    /\ NormalizedText(documentLines) = NormalizedText(codeContent)

----------------------------------------------------------------------------
(* The languages of the default registry                                   *)

\* the language ids of the languages listed as supported
ListedLanguages == {"typescript", "javascript", "python", "go", "rust", "java"}

\* getParser returned for a document of the language, and no parser was
\* registered after the construction of the registry
DefaultLookup(languageId) ==
    /\ pc = "returned"
    /\ calls.last.op = "getParser"
    /\ calls.registered = DefaultRegistrations
    /\ calls.last.document.languageId = languageId

\* C23: the default registry resolves a document of every listed language to
\* a parser, the one of that language
C23_ListedLanguages ==
    \A languageId \in ListedLanguages :
        DefaultLookup(languageId) =>
            /\ calls.last.parser # NoParser
            /\ calls.last.parser.languageId
                  = (IF languageId = "javascript" THEN "typescript" ELSE languageId)

\* C23 for the languages that the constructor registers
C23_RegisteredLanguages ==
    \A languageId \in {"typescript", "javascript", "python"} :
        DefaultLookup(languageId) =>
            /\ calls.last.parser # NoParser
            /\ calls.last.parser.languageId
                  = (IF languageId = "javascript" THEN "typescript" ELSE languageId)

\* C23 witness: the default registry resolved a Python document
C23_WitnessRegisteredLanguages ==
    /\ DefaultLookup("python")
    /\ calls.last.parser = PythonParser

----------------------------------------------------------------------------
(* StateManager.  state is [version, pairs, lastFullScan]; pairs is a Map   *)
(* from pair ids to pair states, which keeps its keys in the order of their *)
(* first insertion: a sequence of entries [id, state] with distinct ids.    *)
(* A Date is [time] and the string that toISOString gives for it is [iso].  *)
(* stateFilePath is the empty string where the code has null.  stateFile is *)
(* what the file system holds under the path: NoFile, Corrupt for a text    *)
(* that JSON.parse rejects, or the text that JSON.stringify wrote, which is *)
(* the object that JSON.parse reads from it; a property that is undefined   *)
(* stands for one that the text leaves out.                                 *)

STATE_VERSION == Chars("1.0.0")

Undefined == [undefined |-> TRUE]

NoFile == [file |-> "ENOENT"]

Corrupt == [file |-> "corrupt"]

Date(time) == [time |-> time]

\* Date.prototype.toISOString
toISOString(date) == [iso |-> date.time]

\* new Date(string)
DateOf(string) == [time |-> string.iso]

\* the state that the constructor and the catch block of loadState set
FreshState == [version |-> STATE_VERSION, pairs |-> <<>>, lastFullScan |-> Undefined]

\* the position of the entry of the id in pairs, 0 if it has none
PairEntry(pairs, pairId) ==
    IF \E k \in DOMAIN pairs : pairs[k].id = pairId
    THEN CHOOSE k \in DOMAIN pairs : pairs[k].id = pairId
    ELSE 0

\* this.state.pairs.get(pairId)
getPairState(st, pairId) ==
    IF PairEntry(st.pairs, pairId) = 0 THEN Undefined
    ELSE st.pairs[PairEntry(st.pairs, pairId)].state

\* this.state.pairs.set(pairId, pairState)
PairsSet(pairs, pairId, pairState) ==
    IF PairEntry(pairs, pairId) = 0
    THEN Append(pairs, [id |-> pairId, state |-> pairState])
    ELSE [pairs EXCEPT ![PairEntry(pairs, pairId)].state = pairState]

\* pair.reviewedAt, which createPair does not set
ReviewedAt(pair) == IF "reviewedAt" \in DOMAIN pair THEN pair.reviewedAt ELSE Undefined

\* const pairState of updatePairState
PairStateOf(pair) ==
    [id         |-> pair.id,
     filePath   |-> pair.filePath,
     codeHash   |-> pair.codeSignature.hash,
     docHash    |-> hashContent(pair.docContent),
     isReviewed |-> pair.isReviewed,
     reviewedAt |-> ReviewedAt(pair),
     driftScore |-> pair.driftScore]

\* StateManager.updatePairState, on the state
updatePairState(st, pair) == [st EXCEPT !.pairs = PairsSet(@, pair.id, PairStateOf(pair))]

\* the pair after the two assignments of markAsReviewed at the time now
ReviewedPair(pair, now) == [reviewedAt |-> Date(now)] @@ [pair EXCEPT !.isReviewed = TRUE]

\* StateManager.markAsReviewed, on the state
markAsReviewed(st, pair, now) == updatePairState(st, ReviewedPair(pair, now))

\* StateManager.hasCodeChanged
hasCodeChanged(st, pair) ==
    LET savedState == getPairState(st, pair.id)
    IN IF savedState = Undefined THEN FALSE
       ELSE savedState.codeHash # pair.codeSignature.hash

\* the mutant of getTrackingStatus: the stored hash of the documentation is
\* compared
getTrackingStatus_DocHash(st, pair) ==
    LET savedState == getPairState(st, pair.id)
    IN IF savedState = Undefined THEN "untracked"
       ELSE IF savedState.docHash = pair.codeSignature.hash THEN "synced"
       ELSE "drifted"

\* StateManager.getTrackingStatus
getTrackingStatus(st, pair) ==
    LET savedState == getPairState(st, pair.id)
    IN IF savedState = Undefined THEN "untracked"
       ELSE IF savedState.codeHash = pair.codeSignature.hash THEN "synced"
       ELSE "drifted"

\* StateManager.removePairState, on the state
removePairState(st, pairId) ==
    [st EXCEPT !.pairs = SelectSeq(@, LAMBDA e : e.id # pairId)]

\* StateManager.clearAllState, on the state
clearAllState(st) == [st EXCEPT !.pairs = <<>>]

\* StateManager.setLastFullScan, on the state
setLastFullScan(st, date) == [st EXCEPT !.lastFullScan = date]

\* JSON.stringify of a property: a Date gives its ISO string
ToJSON(value) == IF "time" \in DOMAIN value THEN toISOString(value) ELSE value

\* JSON.stringify(data, null, 2) for const data of saveState
Stringify(st) ==
    [file         |-> "json",
     version      |-> st.version,
     pairs        |-> [k \in DOMAIN st.pairs |->
                          [st.pairs[k] EXCEPT !.state.reviewedAt = ToJSON(@)]],
     lastFullScan |-> ToJSON(st.lastFullScan)]

\* the state after StateManager.loadState, for the file under the path
loadState(st, path, file) ==
    IF path = EmptyStr \/ file = NoFile THEN st
    ELSE IF file = Corrupt THEN FreshState
    ELSE [version      |-> file.version,
          pairs        |-> file.pairs,
          lastFullScan |-> IF file.lastFullScan = Undefined THEN Undefined
                           ELSE DateOf(file.lastFullScan)]

\* what the file system does with writeFileSync
WriteOutcomes == {"written", "EACCES"}

\* saveState wrote the file: it has a path and writeFileSync did not throw
Wrote(path, outcome) == path # EmptyStr /\ outcome = "written"

\* the state file after StateManager.saveState
SavedFile(st, path, file, outcome) == IF Wrote(path, outcome) THEN Stringify(st) ELSE file

\* the mutant of saveState: the flag is cleared whether or not the file was written
SavedDirty_Always(dirty, path, outcome) == FALSE

\* isDirty after StateManager.saveState
SavedDirty(dirty, path, outcome) == IF Wrote(path, outcome) THEN FALSE ELSE dirty

----------------------------------------------------------------------------
(* The extension.  openDocuments holds the documents of the visible         *)
(* editors, activeDecorations the lines that applyDecorations decorated in  *)
(* each of them, timeout the document that the pending timer of             *)
(* debouncedScan was set for, and handler the event handler or command that *)
(* runs or ran last.  Every document is shown in an editor, so that the     *)
(* pairs the CodeLens provider holds for it are the ones the scanner        *)
(* stores.  A handler that scans awaits the scanner in "parsing" and        *)
(* "analyzing" and resumes in "returned".  The settings are the defaults.   *)
(* The dashboard is taken to leave the pairs it is given as they are.       *)

\* config.driftThreshold, 0.3
driftThreshold == Dbl(80530636, 429496728)

\* the pairs that the loop of applyDecorations does not skip
Decorated(pair) == ~(DblLess(pair.driftScore, driftThreshold) \/ pair.isReviewed)

\* DecorationProvider.applyDecorations with gutter icons and inline
\* decorations enabled: the lines that get both
applyDecorations(pairs) ==
    LET shown == SelectSeq(pairs, Decorated)
    IN [k \in DOMAIN shown |-> shown[k].docRange.start.line]

\* the texts that a document goes through: an edit takes it to a later one
Versions(path) ==
    IF path = Chars("b.ts")
    THEN <<Docstring(<<"/** @param {number} b x */", "function add(a) {", "}">>),
           Docstring(<<"/** @param {number} b x */", "function add(a, c) {", "}">>),
           Docstring(<<"", "/** @param {number} b x */", "function add(a) {", "}">>)>>
    ELSE <<Docstring(<<"def add(a):", "    '''Adds.'''", "    return a">>),
           Docstring(<<"def add(a):", "    ''':param b: x'''", "    return a">>),
           Docstring(<<"def add(a, c):", "    ''':param b: x'''", "    return a">>)>>

\* the position of the text of the document among its versions
VersionOf(document) ==
    CHOOSE v \in DOMAIN Versions(document.fsPath) :
        Versions(document.fsPath)[v] = document.lines

\* the document in its first version
Opened(path, languageId) ==
    [fsPath |-> Chars(path), languageId |-> languageId,
     lines |-> Versions(Chars(path))[1], fault |-> "none"]

StatePath == Chars(".drift/state.json")

NoHandler == [name |-> "none", document |-> 0]

Handler(name, k) == [name |-> name, document |-> k]

\* await scanner.scanDocument(document) is reached for the open document k
AwaitScan(k) ==
    /\ pc' = "parsing"
    /\ calls' = [calls EXCEPT
                    !.last = Awaiting("scanDocument", openDocuments[k],
                                      getParser(Registry, openDocuments[k]),
                                      EntryBefore(openDocuments[k].fsPath),
                                      <<openDocuments[k]>>, 1)]

\* updateDecorationsForEditor for the editor of the open document k
Decorate(k, pairs) == [activeDecorations EXCEPT ![k] = applyDecorations(pairs)]

\* updateDecorationsForVisibleEditors, for the given results
DecorateVisible(results) ==
    [k \in DOMAIN openDocuments |->
        applyDecorations(getResultsForFile(results, openDocuments[k].fsPath))]

\* activate up to its call of scanOpenDocuments, which awaits the scan of the
\* first visible editor
Activate ==
    /\ pc = "inactive"
    /\ state' = loadState(FreshState, stateFilePath, stateFile)
    /\ isDirty' = FALSE
    /\ scanResults' = <<>>
    /\ activeDecorations' = [k \in DOMAIN openDocuments |-> <<>>]
    /\ timeout' = <<>>
    /\ handler' = Handler("activate", 1)
    /\ pc' = "parsing"
    /\ calls' = [calls EXCEPT
                    !.source = <<>>,
                    !.last = Awaiting("scanDocument", openDocuments[1],
                                      getParser(Registry, openDocuments[1]), NoEntry,
                                      <<openDocuments[1]>>, 1)]
    /\ UNCHANGED <<parsers, extensionMap, returned, scanUnchanged, stateFilePath, stateFile,
                   openDocuments>>

\* the user edits the open document k: onDidChangeTextDocument calls
\* debouncedScan, which sets the timer anew
ChangeTextDocument(k, v) ==
    /\ pc = "idle"
    /\ v \in DOMAIN Versions(openDocuments[k].fsPath)
    /\ v > VersionOf(openDocuments[k])
    /\ openDocuments' = [openDocuments EXCEPT ![k].lines = Versions(openDocuments[k].fsPath)[v]]
    /\ timeout' = <<k>>
    /\ handler' = Handler("change", k)
    /\ UNCHANGED <<pc, parsers, extensionMap, scanResults, returned, calls, scanUnchanged,
                   stateVars, activeDecorations>>

\* the timer of debouncedScan fires
Timeout ==
    /\ pc = "idle"
    /\ timeout # <<>>
    /\ timeout' = <<>>
    /\ handler' = Handler("debouncedScan", timeout[1])
    /\ AwaitScan(timeout[1])
    /\ UNCHANGED <<parsers, extensionMap, scanResults, returned, scanUnchanged, stateVars,
                   openDocuments, activeDecorations>>

\* onDidSaveTextDocument for the open document k
SaveTextDocument(k) ==
    /\ pc = "idle"
    /\ handler' = Handler("save", k)
    /\ AwaitScan(k)
    /\ UNCHANGED <<parsers, extensionMap, scanResults, returned, scanUnchanged, stateVars,
                   openDocuments, activeDecorations, timeout>>

\* onDidChangeActiveTextEditor for the editor of the open document k
ChangeActiveTextEditor(k) ==
    /\ pc = "idle"
    /\ handler' = Handler("switch", k)
    /\ IF EntryOf(scanResults, openDocuments[k].fsPath) = 0
       THEN /\ AwaitScan(k)
            /\ UNCHANGED activeDecorations
       ELSE /\ activeDecorations'
                  = Decorate(k, getResultsForFile(scanResults, openDocuments[k].fsPath))
            /\ UNCHANGED <<pc, calls>>
    /\ UNCHANGED <<parsers, extensionMap, scanResults, returned, scanUnchanged, stateVars,
                   openDocuments, timeout>>

\* the handler that awaited the scan goes on: it decorates the editor, and
\* scanOpenDocuments goes to the next editor
Resume ==
    /\ pc = "returned"
    /\ activeDecorations' = Decorate(handler.document, returned)
    /\ returned' = <<>>
    /\ parsedPairs' = <<>>
    /\ analyzedPairs' = <<>>
    /\ IF handler.name = "activate" /\ handler.document < Len(openDocuments)
       THEN /\ handler' = Handler("activate", handler.document + 1)
            /\ AwaitScan(handler.document + 1)
       ELSE /\ pc' = "idle"
            /\ UNCHANGED <<handler, calls>>
    /\ UNCHANGED <<parsers, extensionMap, scanResults, analysisVars, extractVars, stateVars,
                   openDocuments, timeout>>

\* the pairs of the open document k that the CodeLens provider holds
LensPairs(k) == getResultsForFile(scanResults, openDocuments[k].fsPath)

\* the results after pair n of the open document k got the assignments of
\* markAsReviewed: the scanner stores the object that the command is given
ResultsReviewed(k, n) ==
    ResultsSet(scanResults, openDocuments[k].fsPath,
               [LensPairs(k) EXCEPT ![n] = ReviewedPair(@, 1)])

\* the command drift.trackPair for pair n of the open document k, which the
\* CodeLens of an untracked pair runs
TrackPair(k, n, outcome) ==
    /\ pc = "idle"
    /\ n \in DOMAIN LensPairs(k)
    /\ getTrackingStatus(state, LensPairs(k)[n]) = "untracked"
    /\ state' = updatePairState(state, LensPairs(k)[n])
    /\ stateFile' = SavedFile(state', stateFilePath, stateFile, outcome)
    /\ isDirty' = SavedDirty(TRUE, stateFilePath, outcome)
    /\ handler' = Handler("trackPair", k)
    /\ UNCHANGED <<pc, scanVars, analysisVars, extractVars, stateFilePath, openDocuments,
                   activeDecorations, timeout>>

\* the command drift.reviewAndSync for pair n of the open document k, which
\* the CodeLens of a tracked pair with drift runs
ReviewAndSync(k, n, outcome) ==
    /\ pc = "idle"
    /\ n \in DOMAIN LensPairs(k)
    /\ getTrackingStatus(state, LensPairs(k)[n]) # "untracked"
    /\ \/ getTrackingStatus(state, LensPairs(k)[n]) = "drifted"
       \/ DblLess(DblZero, LensPairs(k)[n].driftScore)
    /\ state' = markAsReviewed(state, LensPairs(k)[n], 1)
    /\ scanResults' = ResultsReviewed(k, n)
    /\ stateFile' = SavedFile(state', stateFilePath, stateFile, outcome)
    /\ isDirty' = SavedDirty(TRUE, stateFilePath, outcome)
    /\ activeDecorations' = DecorateVisible(scanResults')
    /\ handler' = Handler("reviewAndSync", k)
    /\ UNCHANGED <<pc, parsers, extensionMap, returned, calls, scanUnchanged, stateFilePath,
                   openDocuments, timeout>>

\* deactivate, and the end of the extension host with its timers
Deactivate(outcome) ==
    /\ pc = "idle"
    /\ pc' = "inactive"
    /\ stateFile' = IF isDirty THEN SavedFile(state, stateFilePath, stateFile, outcome)
                    ELSE stateFile
    /\ isDirty' = IF isDirty THEN SavedDirty(isDirty, stateFilePath, outcome) ELSE isDirty
    /\ activeDecorations' = [k \in DOMAIN openDocuments |-> <<>>]
    /\ timeout' = <<>>
    /\ handler' = Handler("deactivate", 0)
    /\ UNCHANGED <<scanVars, analysisVars, extractVars, state, stateFilePath, openDocuments>>

----------------------------------------------------------------------------
(* SpecTrack: the extension with one TypeScript document in a visible       *)
(* editor, over sessions of the editor, together with the operations of     *)
(* the state manager on the pairs of the document.                          *)

\* StateManager.updatePairState(pair) for pair n of the open document k
UpdatePairState(k, n) ==
    /\ pc = "idle"
    /\ n \in DOMAIN LensPairs(k)
    /\ state' = updatePairState(state, LensPairs(k)[n])
    /\ isDirty' = TRUE
    /\ handler' = [name |-> "updatePairState", document |-> k, pair |-> n]
    /\ UNCHANGED <<pc, parsers, extensionMap, scanResults, returned, calls, scanUnchanged,
                   stateFilePath, stateFile, openDocuments, activeDecorations, timeout>>

\* StateManager.markAsReviewed(pair) for pair n of the open document k
MarkAsReviewed(k, n) ==
    /\ pc = "idle"
    /\ n \in DOMAIN LensPairs(k)
    /\ state' = markAsReviewed(state, LensPairs(k)[n], 1)
    /\ scanResults' = ResultsReviewed(k, n)
    /\ isDirty' = TRUE
    /\ handler' = [name |-> "markAsReviewed", document |-> k, pair |-> n]
    /\ UNCHANGED <<pc, parsers, extensionMap, returned, calls, scanUnchanged, stateFilePath, stateFile,
                   openDocuments, activeDecorations, timeout>>

\* StateManager.removePairState(pair.id) for pair n of the open document k
RemovePairState(k, n) ==
    /\ pc = "idle"
    /\ n \in DOMAIN LensPairs(k)
    /\ state' = removePairState(state, LensPairs(k)[n].id)
    /\ isDirty' = TRUE
    /\ handler' = [name |-> "removePairState", document |-> k, pair |-> n]
    /\ UNCHANGED <<pc, parsers, extensionMap, scanResults, returned, calls, scanUnchanged,
                   stateFilePath, stateFile, openDocuments, activeDecorations, timeout>>

\* StateManager.clearAllState()
ClearAllState ==
    /\ pc = "idle"
    /\ state' = clearAllState(state)
    /\ isDirty' = TRUE
    /\ handler' = Handler("clearAllState", 0)
    /\ UNCHANGED <<pc, parsers, extensionMap, scanResults, returned, calls, scanUnchanged,
                   stateFilePath, stateFile, openDocuments, activeDecorations, timeout>>

\* StateManager.setLastFullScan(new Date())
SetLastFullScan ==
    /\ pc = "idle"
    /\ state' = setLastFullScan(state, Date(1))
    /\ isDirty' = TRUE
    /\ handler' = Handler("setLastFullScan", 0)
    /\ UNCHANGED <<pc, parsers, extensionMap, scanResults, returned, calls, scanUnchanged,
                   stateFilePath, stateFile, openDocuments, activeDecorations, timeout>>

\* StateManager.saveState()
SaveState(outcome) ==
    /\ pc = "idle"
    /\ stateFile' = SavedFile(state, stateFilePath, stateFile, outcome)
    /\ isDirty' = SavedDirty(isDirty, stateFilePath, outcome)
    /\ handler' = [name |-> "saveState", document |-> 0, wrote |-> Wrote(stateFilePath, outcome)]
    /\ UNCHANGED <<pc, parsers, extensionMap, scanResults, returned, calls, scanUnchanged, state,
                   stateFilePath, openDocuments, activeDecorations, timeout>>

\* the extension is installed and not yet active: the workspace has no folder,
\* or one with no state file or with one that does not parse
InitTrack ==
    /\ pc = "inactive"
    /\ ExtractIdle
    /\ AnalysisIdle
    /\ parsers = registerDefaultParsers.parsers
    /\ extensionMap = registerDefaultParsers.extensionMap
    /\ scanResults = <<>>
    /\ parsedPairs = <<>>
    /\ analyzedPairs = <<>>
    /\ returned = <<>>
    /\ calls = [registered |-> DefaultRegistrations, source |-> <<>>, last |-> Idle]
    /\ state = FreshState
    /\ isDirty = FALSE
    /\ stateFilePath \in {EmptyStr, StatePath}
    /\ stateFile \in (IF stateFilePath = EmptyStr THEN {NoFile} ELSE {NoFile, Corrupt})
    /\ openDocuments = <<Opened("b.ts", "typescript")>>
    /\ activeDecorations = <<<<>>>>
    /\ timeout = <<>>
    /\ handler = NoHandler

NextTrack ==
    \/ Activate
    \/ \E k \in DOMAIN openDocuments, v \in 1..3 : ChangeTextDocument(k, v)
    \/ Timeout
    \/ \E k \in DOMAIN openDocuments : SaveTextDocument(k)
    \/ \E k \in DOMAIN openDocuments : ChangeActiveTextEditor(k)
    \/ ParsePairs
    \/ AnalyzePairs
    \/ Resume
    \/ \E k \in DOMAIN openDocuments, n \in 1..2, outcome \in WriteOutcomes :
           TrackPair(k, n, outcome)
    \/ \E k \in DOMAIN openDocuments, n \in 1..2, outcome \in WriteOutcomes :
           ReviewAndSync(k, n, outcome)
    \/ \E outcome \in WriteOutcomes : Deactivate(outcome)
    \/ \E k \in DOMAIN openDocuments, n \in 1..2 : UpdatePairState(k, n)
    \/ \E k \in DOMAIN openDocuments, n \in 1..2 : MarkAsReviewed(k, n)
    \/ \E k \in DOMAIN openDocuments, n \in 1..2 : RemovePairState(k, n)
    \/ ClearAllState
    \/ SetLastFullScan
    \/ \E outcome \in WriteOutcomes : SaveState(outcome)

SpecTrack == InitTrack /\ [][NextTrack]_vars

----------------------------------------------------------------------------
(* The tracking status                                                     *)

\* the pairs that the scanner holds for the open documents
HeldPairs == UNION {Range(LensPairs(k)) : k \in DOMAIN openDocuments}

\* the state manager stores a state under the id
Stored(pairId) == \E e \in Range(state.pairs) : e.id = pairId

\* the code hash of the state stored under the id
StoredHash(pairId) == (CHOOSE e \in Range(state.pairs) : e.id = pairId).state.codeHash

\* the pair that the operation of the state manager was called with, as it is
\* after the call
HandledPair == LensPairs(handler.document)[handler.pair]

\* C24: the tracking status of a pair is 'untracked' iff no state is stored
\* under its id, 'synced' iff the stored code hash is the hash of its
\* signature, and 'drifted' otherwise; it is 'synced' right after
\* updatePairState and markAsReviewed, 'untracked' right after
\* removePairState and clearAllState, and hasCodeChanged holds exactly for
\* the status 'drifted'
C24_TrackingStatus ==
    /\ \A pair \in HeldPairs :
          /\ getTrackingStatus(state, pair) = "untracked" <=> ~Stored(pair.id)
          /\ getTrackingStatus(state, pair) = "synced"
                <=> (Stored(pair.id) /\ StoredHash(pair.id) = pair.codeSignature.hash)
          /\ getTrackingStatus(state, pair) = "drifted"
                <=> (Stored(pair.id) /\ StoredHash(pair.id) # pair.codeSignature.hash)
          /\ hasCodeChanged(state, pair) <=> getTrackingStatus(state, pair) = "drifted"
    /\ handler.name \in {"updatePairState", "markAsReviewed"}
          => getTrackingStatus(state, HandledPair) = "synced"
    /\ handler.name = "removePairState"
          => getTrackingStatus(state, HandledPair) = "untracked"
    /\ handler.name = "clearAllState"
          => \A pair \in HeldPairs : getTrackingStatus(state, pair) = "untracked"

\* C24 witness: a scan found the tracked pair with another code hash
C24_WitnessDrifted ==
    /\ pc = "idle"
    /\ handler.name = "debouncedScan"
    /\ \E pair \in HeldPairs : getTrackingStatus(state, pair) = "drifted"

----------------------------------------------------------------------------
(* The pending-changes flag                                                *)

\* the operations of the state manager that change its state
Mutators ==
    {"updatePairState", "markAsReviewed", "removePairState", "clearAllState",
     "setLastFullScan"}

\* the state in memory is the one that loadState reads from the state file,
\* up to the strings that JSON has for its dates
FileHoldsState == Stringify(loadState(FreshState, stateFilePath, stateFile)) = Stringify(state)

\* the flag is set right after a mutating operation, and a state manager
\* without pending changes holds the state of its file
PendingChanges ==
    /\ handler.name \in Mutators => isDirty
    /\ ~isDirty => FileHoldsState

\* C27 as stated: every mutating operation sets the flag, a state manager
\* without pending changes holds the state of its file, and after saveState
\* returns there are no pending changes
C27_NoneAfterSave ==
    /\ PendingChanges
    /\ handler.name = "saveState" => ~isDirty

\* a step of the state manager of one session clears the flag
FlagCleared == pc # "inactive" /\ isDirty /\ ~isDirty'

\* a step in which saveState writes the state file as the state stringifies
FileWritten == stateFilePath # EmptyStr /\ stateFile' = Stringify(state')

\* C27: every mutating operation sets the flag, a state manager without
\* pending changes holds the state of its file, the flag is cleared only in a
\* step that writes the state file, and after a saveState that wrote the file
\* there are no pending changes
C27_PendingFlag ==
    /\ [](/\ PendingChanges
          /\ (handler.name = "saveState" /\ handler.wrote) => ~isDirty)
    /\ [][FlagCleared => FileWritten]_vars

\* C27 witness: saveState wrote a state with a pair and cleared the flag
C27_WitnessWritten ==
    /\ handler.name = "saveState"
    /\ handler.wrote
    /\ state.pairs # <<>>
    /\ ~isDirty

\* saveState returned without a write, and the changes are still pending
C27_WitnessNotWritten ==
    /\ handler.name = "saveState"
    /\ ~handler.wrote
    /\ isDirty

----------------------------------------------------------------------------
(* Reviewed pairs                                                          *)

\* the handlers that scan a document and decorate its editor
ScanHandlers == {"activate", "debouncedScan", "save", "switch"}

\* the state manager remembers that the pair was marked as reviewed: the
\* state stored under its id is a reviewed one of this code and documentation
RememberedReviewed(pair) ==
    /\ getPairState(state, pair.id) # Undefined
    /\ getPairState(state, pair.id).isReviewed
    /\ getPairState(state, pair.id).codeHash = pair.codeSignature.hash
    /\ getPairState(state, pair.id).docHash = hashContent(pair.docContent)

\* C22: after a scan of a file, a pair of it that was marked as reviewed and
\* has not changed since gets no decoration, in the session of the review and
\* in later ones
C22_ReviewedStaysDismissed ==
    (pc = "idle" /\ handler.name \in ScanHandlers) =>
        \A k \in DOMAIN openDocuments : \A pair \in Range(LensPairs(k)) :
            RememberedReviewed(pair)
                => pair.docRange.start.line \notin Range(activeDecorations[k])

----------------------------------------------------------------------------
(* Tracking across edits                                                   *)

\* the states stored for pairs of the file that have the documentation of the
\* pair: the tracked states of the declaration that the pair documents
TrackedStatesOf(pair) ==
    {e.state : e \in {t \in Range(state.pairs) :
                         /\ t.state.filePath = pair.filePath
                         /\ t.state.docHash = hashContent(pair.docContent)}}

\* C25: after a scan, a tracked pair whose documentation and declaration are
\* as they were tracked is 'synced' wherever it stands in the file, and one
\* whose declaration was edited is 'drifted'
C25_TrackingFollowsDeclaration ==
    (pc = "idle" /\ handler.name \in ScanHandlers) =>
        \A k \in DOMAIN openDocuments : \A pair \in Range(LensPairs(k)) :
            \A tracked \in TrackedStatesOf(pair) :
                getTrackingStatus(state, pair)
                    = (IF tracked.codeHash = pair.codeSignature.hash THEN "synced"
                       ELSE "drifted")

----------------------------------------------------------------------------
(* SpecEdit: the extension with a TypeScript and a Python document in       *)
(* visible editors, which the user edits.  SpecEditFair adds what the event *)
(* loop gives: activation and a timer that is due run, and an awaited scan  *)
(* goes on, so that the extension is idle or inactive again and again.      *)

InitEdit ==
    /\ pc = "inactive"
    /\ ExtractIdle
    /\ AnalysisIdle
    /\ parsers = registerDefaultParsers.parsers
    /\ extensionMap = registerDefaultParsers.extensionMap
    /\ scanResults = <<>>
    /\ parsedPairs = <<>>
    /\ analyzedPairs = <<>>
    /\ returned = <<>>
    /\ calls = [registered |-> DefaultRegistrations, source |-> <<>>, last |-> Idle]
    /\ state = FreshState
    /\ isDirty = FALSE
    /\ stateFilePath = StatePath
    /\ stateFile = NoFile
    /\ openDocuments = <<Opened("b.ts", "typescript"), Opened("a.py", "python")>>
    /\ activeDecorations = <<<<>>, <<>>>>
    /\ timeout = <<>>
    /\ handler = NoHandler

NextEdit ==
    \/ Activate
    \/ \E k \in DOMAIN openDocuments, v \in 1..3 : ChangeTextDocument(k, v)
    \/ Timeout
    \/ ParsePairs
    \/ AnalyzePairs
    \/ Resume

SpecEdit == InitEdit /\ [][NextEdit]_vars

\* no scan is awaited
Settled == pc \in {"idle", "inactive"}

SpecEditFair ==
    /\ SpecEdit
    /\ WF_vars(Activate)
    /\ WF_vars(Timeout)
    /\ []<>Settled

\* the document received a content change
Edited(document) == VersionOf(document) > 1

\* the results that the scanner stores for the path of the document came from
\* a scan of its present text
ResultsOfLatestText(document) ==
    MapGet(calls.source, document.fsPath, NoDocument) = document

\* C26: once the changes stop, the stored results of every document that was
\* edited are, from some time on, those of its latest text
C26_EditedEventuallyRescanned ==
    <>[](\A k \in DOMAIN openDocuments :
            Edited(openDocuments[k]) => ResultsOfLatestText(openDocuments[k]))

\* C26 for changes to one document only: the other document is not edited
C26_OneDocumentEdited ==
    <>[](\A k \in DOMAIN openDocuments :
            (Edited(openDocuments[k])
             /\ \A j \in DOMAIN openDocuments \ {k} : ~Edited(openDocuments[j]))
                => ResultsOfLatestText(openDocuments[k]))

====
